---- MODULE Spec2Model ----
(***************************************************************************)
(* Model of the remote-record reconciliation pipeline of src/index.js      *)
(* (the second, current copy of the program, lines 773-2218): the global   *)
(* throttle gate, shopifyFetch with its retry loop, the metafield upsert   *)
(* and delete helpers, runWithConcurrency and the two form-submission      *)
(* handlers.  Every step of the event loop (a macrotask and the microtasks *)
(* it triggers) is one action.  Time is a discrete clock of Tick ms;       *)
(* timers hold the time they still have to run.                            *)
(***************************************************************************)
EXTENDS Integers, Sequences, FiniteSets, TLC

VARIABLES
  cfg,      \* the inputs of the run: callers, batch, classifications
  fetch,    \* per fiber: the state of its current shopifyFetch call
  gateQ,    \* fibers waiting on __shopifyGate, in the order they entered
  gate,     \* the gate: open, busy (fn running) or gap (release timer running)
  caller,   \* per plain caller of shopifyFetch: its position
  job,      \* per reconciliation of one record: the position of its handler code
  ops,      \* per reconciliation: mfOps, the field operations started so far
  run,      \* runWithConcurrency: the next index, the live runners, the results
  remote,   \* the remote records: fields, tags, note
  budget,   \* responses the remote side may still give: retryable, failing
  hist,     \* stopwatches and flags over the run (observation only)
  crashed,  \* the process died of an unhandled rejection
  ack,      \* per submit handler: what it answered the form with
  pure      \* the compiler and the extractor applied to inputs of their own

vars == <<cfg, fetch, gateQ, gate, caller, job, ops, run, remote, budget, hist, crashed,
          ack, pure>>

-----------------------------------------------------------------------------
(* Bounds of the model *)
MaxCallers == 2
MaxRecords == 2
MaxWorkers == 2
SpanN == 3
MaxRetryResponses == 6
MaxFailResponses == 1
MaxSharedRetries == 2
MaxChecked == 2
MaxRounds == 2

(* Program constants *)
SHOPIFY_MIN_GAP_MS == 400
MaxRetryAttempt == 5
BackoffStepMs == 2000
BackoffCapMs == 10000

\* The step of the clock: every delay of the model is a multiple of the gap
Tick == SHOPIFY_MIN_GAP_MS

Min(a, b) == IF a <= b THEN a ELSE b
Max(a, b) == IF a >= b THEN a ELSE b

-----------------------------------------------------------------------------
(* Responses of the remote API *)
Statuses == {200, 404, 429, 500}
RetryAfterHeaders == {<<>>, <<0>>, <<2>>}   \* absent, "0", "2" (seconds)
\* The API sends Retry-After only with a 429 or a 5xx
Responses ==
  {r \in [status : Statuses, ra : RetryAfterHeaders] :
     r.ra # <<>> => (r.status = 429 \/ r.status >= 500)}
NoResp == [status |-> 0, ra |-> <<>>]

\* res.ok
IsOk(status) == status >= 200 /\ status <= 299

\* res.status === 429 || (res.status >= 500 && res.status < 600)
IsRetryableAnyError(status) == status >= 400 /\ status < 600
IsRetryable(status) == status = 429 \/ (status >= 500 /\ status < 600)

\* retryAfterHeader ? parseFloat(retryAfterHeader) * 1000 : Math.min(2000 * attempt, 10000)
RetryDelayUnscaled(resp, attempt) ==
  IF resp.ra # <<>> THEN resp.ra[1]
  ELSE Min(BackoffStepMs * attempt, BackoffCapMs)
RetryDelayFlat(resp, attempt) ==
  IF resp.ra # <<>> THEN resp.ra[1] * 1000 ELSE BackoffStepMs
RetryDelay(resp, attempt) ==
  IF resp.ra # <<>> THEN resp.ra[1] * 1000
  ELSE Min(BackoffStepMs * attempt, BackoffCapMs)

\* if (attempt <= 5) retry
MayRetry(attempt) == attempt <= MaxRetryAttempt

\* The delay the server asked for (observation only)
ServerDelay(resp) == IF resp.ra # <<>> THEN resp.ra[1] * 1000 ELSE 0

\* The body of a response is named by its place among the responses of the call
NoOut == [kind |-> "none", status |-> 0, body |-> 0]
OkOut(resp, n) == [kind |-> "ok", status |-> resp.status, body |-> n]
HttpErr(resp, n) == [kind |-> "err", status |-> resp.status, body |-> n]
NetErr == [kind |-> "err", status |-> 0, body |-> 0]

-----------------------------------------------------------------------------
(* Values.  A text is a sequence of words; the empty text is <<>>.  All    *)
(* fields of the model live in the namespace "custom".                     *)
Records == 1 .. MaxRecords

PartNames == {"steering_wheel", "trim", "paddles", "magnetic_paddles",
              "da_module", "return_label"}

PartKey == [steering_wheel |-> "parts_steering_wheel", trim |-> "parts_trim",
            paddles |-> "parts_paddles", magnetic_paddles |-> "parts_magnetic_paddles",
            da_module |-> "parts_da_module", return_label |-> "parts_return_label"]

PartLabel == [steering_wheel |-> "Steering Wheel", trim |-> "Trim",
              paddles |-> "Paddles", magnetic_paddles |-> "Magnetic Paddles",
              da_module |-> "DA Module", return_label |-> "Return Label"]

PartOrder == <<"steering_wheel", "trim", "paddles", "magnetic_paddles",
               "da_module", "return_label">>

\* String.prototype.trim: the blanks at both ends are dropped (" " is a blank)
RECURSIVE TrimLeft(_)
TrimLeft(t) == IF t # <<>> /\ Head(t) = " " THEN TrimLeft(Tail(t)) ELSE t

RECURSIVE TrimRight(_)
TrimRight(t) ==
  IF t # <<>> /\ t[Len(t)] = " " THEN TrimRight(SubSeq(t, 1, Len(t) - 1)) ELSE t

Trim(t) == TrimRight(TrimLeft(t))

\* String.prototype.toLowerCase, word by word
LowerWord(w) ==
  CASE w = "Yes" -> "yes" [] w = "YES" -> "yes" [] w = "No" -> "no"
    [] w = "Steering Wheel" -> "steering wheel" [] w = "Trim" -> "trim"
    [] w = "Paddles" -> "paddles" [] w = "Magnetic Paddles" -> "magnetic paddles"
    [] w = "DA Module" -> "da module" [] w = "Return Label" -> "return label"
    [] OTHER -> w

toLowerCase(t) == [i \in 1 .. Len(t) |-> LowerWord(t[i])]

\* String.prototype.toUpperCase on the labels
toUpperCase(w) ==
  CASE w = "Ship" -> "SHIP" [] w = "Install/Pickup" -> "INSTALL/PICKUP"
    [] w = "Deposit" -> "DEPOSIT" [] w = "PIF + Pre-Paid Install" -> "PIF + PRE-PAID INSTALL"
    [] w = "Unpaid" -> "UNPAID" [] w = "Unknown" -> "UNKNOWN"
    [] OTHER -> w

\* Array.prototype.join: the texts of the list with sep between them
RECURSIVE Join(_, _)
Join(list, sep) ==
  IF list = <<>> THEN <<>>
  ELSE IF Len(list) = 1 THEN list[1]
  ELSE list[1] \o <<sep>> \o Join(Tail(list), sep)

\* String.prototype.split(sep): the pieces between the separators
RECURSIVE Split(_, _)
Split(t, sep) ==
  IF \A i \in 1 .. Len(t) : t[i] # sep THEN <<t>>
  ELSE LET i == CHOOSE k \in 1 .. Len(t) : t[k] = sep /\ \A m \in 1 .. k - 1 : t[m] # sep
       IN <<SubSeq(t, 1, i - 1)>> \o Split(SubSeq(t, i + 1, Len(t)), sep)

\* .map(s => s.trim()).filter(Boolean)
TrimmedParts(pieces) ==
  SelectSeq([i \in 1 .. Len(pieces) |-> Trim(pieces[i])], LAMBDA x : x # <<>>)

\* fetchOrderTags: raw.split(',').map(t => t.trim()).filter(Boolean); a tag is
\* one word
fetchOrderTags(raw) ==
  LET kept == TrimmedParts(Split(raw, ","))
  IN [i \in 1 .. Len(kept) |-> kept[i][1]] \o <<>>

\* updateOrderTags: tagsArray.join(', ')
RECURSIVE TagsString(_)
TagsString(tagsArray) ==
  IF tagsArray = <<>> THEN <<>>
  ELSE IF Len(tagsArray) = 1 THEN <<tagsArray[1]>>
  ELSE <<tagsArray[1], ",", " ">> \o TagsString(Tail(tagsArray))

\* currentTags2.includes('Incoming_Yes')
includesNever(tags, tag) == FALSE
includes(tags, tag) == \E i \in 1 .. Len(tags) : tags[i] = tag

\* String(n) of a natural number: its decimal digits
RECURSIVE Digits(_)
Digits(n) ==
  LET d == <<"0", "1", "2", "3", "4", "5", "6", "7", "8", "9">>[(n % 10) + 1]
  IN IF n < 10 THEN <<d>> ELSE Digits(n \div 10) \o <<d>>

\* String(n).padStart(2, '0')
padStart2(n) == IF Len(Digits(n)) >= 2 THEN Digits(n) ELSE <<"0">> \o Digits(n)

\* The header line of the note: the date of the run, the supplier and the date
\* of the invoice
headerLine(now, invoiceSupplier, invoiceDate) ==
  <<"Update", " ">> \o padStart2(now.getMonth + 1) \o <<"/">> \o padStart2(now.getDate)
    \o <<"/">> \o Digits(now.getFullYear)
    \o <<":", " ", "Invoiced", " ", "with", " ">> \o Trim(<<invoiceSupplier>>)
    \o <<" ">> \o Trim(<<invoiceDate>>) \o <<" ", "Invoice">>

\* a line of twelve dashes
dashLine == "------------"

\* The note written back: the header line, the dash line, the note as it was
newNoteBelow(header, existingNote) == existingNote \o <<"\n", dashLine, "\n">> \o header
newNote(header, existingNote) == header \o <<"\n", dashLine, "\n">> \o existingNote

yesNoBlank(on, label) == IF on THEN <<label>> ELSE <<>>

\* yesNo(on, 'Trim', 'No Trim')
yesNo(on, label) == IF on THEN <<label>> ELSE <<"No", label>>

FulfillmentLabel(v) ==
  IF v = "install_pickup" THEN "Install/Pickup" ELSE IF v = "tbd" THEN "TBD" ELSE "Ship"

PaymentLabel(v) ==
  IF v = "deposit" THEN "Deposit"
  ELSE IF v = "pif_prepaid_install" THEN "PIF + Pre-Paid Install"
  ELSE IF v = "unpaid" THEN "Unpaid"
  ELSE IF v = "unknown" THEN "Unknown" ELSE "PIF"

\* parseOne: the selections of one record as the handlers use them
\* (the single-order handler reads its form the same way)
parseOneNoAutoSelect(form) ==
  [partsSelected |-> form.checked,
   otherText |-> Trim(form.otherText),
   setAsideText |-> Trim(form.setAsideText),
   fulfillmentVal |-> form.fulfillment,
   fulfillmentLabel |-> FulfillmentLabel(form.fulfillment),
   paymentVal |-> form.payment,
   paymentLabel |-> PaymentLabel(form.payment)]

parseOne(form) ==
  [partsSelected |-> form.checked
      \cup (IF Trim(form.otherText) # <<>> THEN {"other"} ELSE {})
      \cup (IF Trim(form.setAsideText) # <<>> THEN {"set_aside"} ELSE {}),
   otherText |-> Trim(form.otherText),
   setAsideText |-> Trim(form.setAsideText),
   fulfillmentVal |-> form.fulfillment,
   fulfillmentLabel |-> FulfillmentLabel(form.fulfillment),
   paymentVal |-> form.payment,
   paymentLabel |-> PaymentLabel(form.payment)]

ValidationErrorsOtherOnly(p, r) ==
  IF "other" \in p.partsSelected /\ p.otherText = <<>>
  THEN {<<"parts_other_text", r>>} ELSE {}

\* The validation of the submit handlers: the inputs in error, keyed by block
\* and record (the single-order form has no record suffix: 0)
ValidationErrors(p, r) ==
  (IF "other" \in p.partsSelected /\ p.otherText = <<>>
   THEN {<<"parts_other_text", r>>} ELSE {})
  \cup (IF "set_aside" \in p.partsSelected /\ p.setAsideText = <<>>
         THEN {<<"parts_set_aside_text", r>>} ELSE {})

\* One planned field operation: upsertOrderMetafield(...) or deleteOrderMetafield(...)
Upsert(key, val) ==
  [kind |-> "upsert", key |-> key, val |-> val, hint |-> "", wrapped |-> FALSE]
UpsertHint(key, val, hint) ==
  [kind |-> "upsert", key |-> key, val |-> val, hint |-> hint, wrapped |-> FALSE]
UpsertWrapped(key, val) ==
  [kind |-> "upsert", key |-> key, val |-> val, hint |-> "", wrapped |-> TRUE]
Delete(key) ==
  [kind |-> "delete", key |-> key, val |-> <<>>, hint |-> "", wrapped |-> FALSE]

\* The keys of the model that contain 'nc_incoming'
IncomingKeys == {"nc_incoming", "nc_incoming_old"}

\* (mfMap[k] || '').trim()
MapGet(mfMap, k) == IF k \in DOMAIN mfMap THEN mfMap[k] ELSE <<>>

\* filtered.join(' & ')
RECURSIVE JoinAmp(_)
JoinAmp(list) ==
  IF list = <<>> THEN <<>>
  ELSE IF Len(list) = 1 THEN list[1]
  ELSE list[1] \o <<" ", "&", " ">> \o JoinAmp(Tail(list))

\* currentArrangedWith.includes('&')
includesAmp(text) == \E i \in 1 .. Len(text) : text[i] = "&"

ArrangeOpsClear(mfMap, invoiceSupplier) ==
  IF Trim(MapGet(mfMap, "_nc_arranged_with")) = <<>> THEN <<>>
  ELSE <<Delete("arrange_status"), Delete("_nc_arranged_with")>>

\* The arrange logic: the operations pushed for custom._nc_arranged_with
ArrangeOps(mfMap, invoiceSupplier) ==
  LET currentArrangedWith == Trim(MapGet(mfMap, "_nc_arranged_with"))
      parts == TrimmedParts(Split(currentArrangedWith, "&"))
      supplierToRemove == Trim(<<invoiceSupplier>>)
      filtered == SelectSeq(parts, LAMBDA x : x # supplierToRemove)
      newValue == JoinAmp(filtered)
  IN IF currentArrangedWith = <<>> THEN <<>>
     ELSE IF includesAmp(currentArrangedWith)
     THEN IF newValue # <<>> /\ newValue # currentArrangedWith
          THEN <<UpsertWrapped("_nc_arranged_with", newValue)>>
          ELSE <<>>
     ELSE <<Delete("arrange_status"), Delete("_nc_arranged_with")>>

\* arrangeTagAction
ArrangeTagAction(mfMap) ==
  LET currentArrangedWith == Trim(MapGet(mfMap, "_nc_arranged_with"))
  IN IF currentArrangedWith # <<>> /\ ~includesAmp(currentArrangedWith)
     THEN "remove" ELSE "leave"

IncomingOpsAllKeys(mfMap) ==
  LET variants == {k \in DOMAIN mfMap : k \in IncomingKeys}
      RECURSIVE Each(_)
      Each(set) == IF set = {} THEN <<>>
                   ELSE LET k == CHOOSE x \in set : TRUE
                        IN <<Upsert(k, <<"INCOMING">>)>> \o Each(set \ {k})
  IN <<Upsert("nc_incoming", <<"INCOMING">>)>> \o Each(variants)

IncomingOpsCanonicalOnly(mfMap) == <<Upsert("nc_incoming", <<"INCOMING">>)>>

\* The nc_incoming upserts: the canonical key, then every other variant present
IncomingOps(mfMap) ==
  LET variants == {k \in DOMAIN mfMap : k \in IncomingKeys /\ k # "nc_incoming"}
      RECURSIVE Each(_)
      Each(set) == IF set = {} THEN <<>>
                   ELSE LET k == CHOOSE x \in set : TRUE
                        IN <<Upsert(k, <<"INCOMING">>)>> \o Each(set \ {k})
  IN <<Upsert("nc_incoming", <<"INCOMING">>)>> \o Each(variants)

\* `${(invoiceSupplier || '').trim()} ${(invoiceDate || '').trim()} Invoice`.trim()
AppendLabel(invoiceSupplier, invoiceDate) ==
  Trim(Trim(<<invoiceSupplier>>) \o <<" ">> \o Trim(<<invoiceDate>>) \o <<" ", "Invoice">>)

BackEndOpsOverwrite(mfMap, label) == <<Upsert("_back_end_incoming_invoice", label)>>

\* custom._back_end_incoming_invoice: currentBackEnd ? `${currentBackEnd}; ${appendLabel}`
\* : appendLabel
BackEndOps(mfMap, label) ==
  LET currentBackEnd == Trim(MapGet(mfMap, "_back_end_incoming_invoice"))
  IN <<Upsert("_back_end_incoming_invoice",
              IF currentBackEnd # <<>> THEN currentBackEnd \o <<"; ">> \o label
              ELSE label)>>

\* The operations the bulk worker starts before it reads the tags
BulkPreOps(mfMap, invoiceSupplier, label) ==
  ArrangeOps(mfMap, invoiceSupplier) \o IncomingOps(mfMap) \o BackEndOps(mfMap, label)

\* tags.filter(startsWith('PartsSupplier_')).map(substring).filter(Boolean).join(', ')
\* The tags of the model are "PartsSupplier_A", "PartsSupplier_B", the bare prefix
\* "PartsSupplier_" and tags without the prefix
SupplierOf(tag) ==
  IF tag = "PartsSupplier_A" THEN <<"A">>
  ELSE IF tag = "PartsSupplier_B" THEN <<"B">> ELSE <<>>

\* suppliers
Suppliers(tags) ==
  SelectSeq([i \in 1 .. Len(tags) |-> SupplierOf(tags[i])], LAMBDA t : t # <<>>)

\* suppliers.join(', ')
SuppliersCsv(tags) == Join(Suppliers(tags), ", ")

\* packing_slip_notes: the lines of the summary
PartsListForLine3(p) ==
  LET on(part) == part \in p.partsSelected
      labels == SelectSeq([i \in 1 .. 6 |-> IF on(PartOrder[i]) THEN <<PartLabel[PartOrder[i]]>>
                                            ELSE <<>>],
                          LAMBDA x : x # <<>>)
  IN labels \o (IF on("other") /\ p.otherText # <<>> THEN <<p.otherText>> ELSE <<>>)

PackingLine3Always(p) == Join(PartsListForLine3(p), ", ")

PackingLine3(p) ==
  LET list == PartsListForLine3(p)
  IN IF Len(list) = 1 THEN list[1] \o <<" only">> ELSE Join(list, ", ")

\* packingLines.join('\n'); " -- " stands for the dash between the labels
PackingSlipNotes(p) ==
  LET line1 == <<toUpperCase(p.fulfillmentLabel), " -- ", toUpperCase(p.paymentLabel)>>
      line4 == IF "set_aside" \in p.partsSelected /\ p.setAsideText # <<>>
               THEN <<"Should Be Set Aside Already: ">> \o p.setAsideText ELSE <<>>
      packingLines == <<line1, <<>>, PackingLine3(p)>>
                      \o (IF line4 # <<>> THEN << <<>>, line4 >> ELSE <<>>)
  IN Join(packingLines, "\n")

PartOps(p) ==
  [i \in 1 .. 6 |-> Upsert(PartKey[PartOrder[i]],
                           yesNo(PartOrder[i] \in p.partsSelected, PartLabel[PartOrder[i]]))]

OtherOp(p) ==
  IF "other" \in p.partsSelected /\ Trim(p.otherText) # <<>>
  THEN Upsert("parts_other", Trim(p.otherText)) ELSE Delete("parts_other")

SetAsideOp(p) ==
  IF "set_aside" \in p.partsSelected /\ Trim(p.setAsideText) # <<>>
  THEN Upsert("parts_set_aside_already", Trim(p.setAsideText))
  ELSE Delete("parts_set_aside_already")

SuppliersOp(tags) ==
  IF SuppliersCsv(tags) # <<>> THEN Upsert("parts_suppliers", SuppliersCsv(tags))
  ELSE Delete("parts_suppliers")

BulkPostOpsUpsertOnly(p, tags) ==
  PartOps(p)
  \o <<Upsert("ship_install_pickup", <<p.fulfillmentLabel>>),
       Upsert("pif_or_not", <<p.paymentLabel>>),
       Upsert("who_contacts", <<"Nick">>),
       UpsertHint("packing_slip_notes", PackingSlipNotes(p), "multi_line_text_field"),
       Upsert("initial_slack_tagging_done", <<"Yes">>)>>
  \o (IF OtherOp(p).kind = "upsert" THEN <<OtherOp(p)>> ELSE <<>>)
  \o <<SetAsideOp(p), SuppliersOp(tags)>>

\* The operations the bulk worker starts after it read the tags
BulkPostOps(p, tags) ==
  PartOps(p)
  \o <<Upsert("ship_install_pickup", <<p.fulfillmentLabel>>),
       Upsert("pif_or_not", <<p.paymentLabel>>),
       Upsert("who_contacts", <<"Nick">>),
       UpsertHint("packing_slip_notes", PackingSlipNotes(p), "multi_line_text_field"),
       Upsert("initial_slack_tagging_done", <<"Yes">>),
       OtherOp(p), SetAsideOp(p), SuppliersOp(tags)>>

\* The operations the single-order handler starts before it reads the tags
SinglePreOps(p) ==
  PartOps(p)
  \o <<OtherOp(p), SetAsideOp(p),
       Upsert("ship_install_pickup", <<p.fulfillmentLabel>>),
       Upsert("pif_or_not", <<p.paymentLabel>>),
       Upsert("who_contacts", <<"Nick">>)>>

\* ... and after it
SinglePostOps(p, tags) ==
  <<SuppliersOp(tags),
    UpsertHint("packing_slip_notes", PackingSlipNotes(p), "multi_line_text_field"),
    Upsert("initial_slack_tagging_done", <<"Yes">>)>>

\* All the operations of one reconciliation, in the order of mfOps
BulkOps(p, mfMap, invoiceSupplier, label, tags) ==
  BulkPreOps(mfMap, invoiceSupplier, label) \o BulkPostOps(p, tags)

SingleOps(p, tags) == SinglePreOps(p) \o SinglePostOps(p, tags)

-----------------------------------------------------------------------------
(* buildInitialsFromMetafields *)

\* The literals the part fields are compared with
PartLiteralCapitalised == PartLabel
PartLiteral == [steering_wheel |-> "steering wheel", trim |-> "trim",
                paddles |-> "paddles", magnetic_paddles |-> "magnetic paddles",
                da_module |-> "da module", return_label |-> "return label"]

MapUntrimmed(mfMap, k) == MapGet(mfMap, k)

\* v(k) = (mfMap[k] || '').trim()
MapTrim(mfMap, k) == Trim(MapGet(mfMap, k))

\* useMeta = v('custom.initial_slack_tagging_done').toLowerCase() === 'yes'
useMetaAlways(mfMap) == TRUE
useMeta(mfMap) == toLowerCase(MapTrim(mfMap, "initial_slack_tagging_done")) = <<"yes">>

buildInitialsFromMetafields(mfMap) ==
  LET v(k) == MapTrim(mfMap, k)
      f == v("ship_install_pickup")
      pay == v("pif_or_not")
  IN IF ~useMeta(mfMap)
     THEN [useMeta |-> FALSE, partsSelections |-> {"steering_wheel"},
           fulfillment |-> "ship", payment |-> "pif",
           otherText |-> <<>>, setAsideText |-> <<>>]
     ELSE [useMeta |-> TRUE,
           partsSelections |->
             {n \in PartNames : toLowerCase(v(PartKey[n])) = <<PartLiteral[n]>>}
             \cup (IF Trim(v("parts_other")) # <<>> THEN {"other"} ELSE {})
             \cup (IF Trim(v("parts_set_aside_already")) # <<>> THEN {"set_aside"} ELSE {}),
           fulfillment |-> IF f = <<"Ship">> THEN "ship"
                           ELSE IF f = <<"Install/Pickup">> THEN "install_pickup"
                           ELSE IF f = <<"TBD">> THEN "tbd" ELSE "ship",
           payment |-> IF pay = <<"PIF">> THEN "pif"
                       ELSE IF pay = <<"Deposit">> THEN "deposit"
                       ELSE IF pay = <<"PIF + Pre-Paid Install">> THEN "pif_prepaid_install"
                       ELSE IF pay = <<"Unpaid">> THEN "unpaid"
                       ELSE IF pay = <<"Unknown">> THEN "unknown"
                       ELSE IF pay = <<>> THEN "unknown" ELSE "pif",
           otherText |-> v("parts_other"),
           setAsideText |-> v("parts_set_aside_already")]

-----------------------------------------------------------------------------
(* upsertOrderMetafield and deleteOrderMetafield carried out on a record    *)
(* with nothing else going on: list, find, then PUT, POST or DELETE         *)
ApplyOpCreate(rec, o) ==
  IF o.kind = "upsert"
  THEN [rec EXCEPT !.fields = (o.key :> [val |-> o.val, id |-> rec.nextId,
                                         type |-> IF o.hint # "" THEN o.hint
                                                  ELSE "single_line_text_field"]) @@ @,
                   !.nextId = @ + 1]
  ELSE [rec EXCEPT !.fields = [k \in DOMAIN rec.fields \ {o.key} |-> rec.fields[k]] @@ <<>>]

\* The requests of the two operations.  A request names what its body or its
\* path carries: "" and 0 stand for what it leaves out.
NoRequest == [method |-> "none", id |-> 0, key |-> "", type |-> "", val |-> <<>>]

\* shopifyFetch(`/orders/${orderId}/metafields.json`)
ListRequest == [method |-> "GET", id |-> 0, key |-> "", type |-> "", val |-> <<>>]

UpsertRequestForceType(fields, o) ==
  LET type == IF o.hint # "" THEN o.hint ELSE "single_line_text_field"
  IN IF o.key \in DOMAIN fields
     THEN [method |-> "PUT", id |-> fields[o.key].id, key |-> "", type |-> type,
           val |-> o.val]
     ELSE [method |-> "POST", id |-> 0, key |-> o.key, type |-> type, val |-> o.val]

\* upsertOrderMetafield after the list: PUT { id, value } of the field found,
\* or POST { namespace, key, type, value }
UpsertRequest(fields, o) ==
  IF o.key \in DOMAIN fields
  THEN [method |-> "PUT", id |-> fields[o.key].id, key |-> "", type |-> "", val |-> o.val]
  ELSE [method |-> "POST", id |-> 0, key |-> o.key,
        type |-> IF o.hint # "" THEN o.hint ELSE "single_line_text_field",
        val |-> o.val]

DeleteRequestAlways(fields, o) ==
  [method |-> "DELETE", id |-> IF o.key \in DOMAIN fields THEN fields[o.key].id ELSE 0,
   key |-> "", type |-> "", val |-> <<>>]

\* deleteOrderMetafield after the list: DELETE of the field found, or nothing
DeleteRequest(fields, o) ==
  IF o.key \in DOMAIN fields
  THEN [method |-> "DELETE", id |-> fields[o.key].id, key |-> "", type |-> "", val |-> <<>>]
  ELSE NoRequest

\* The remote API carries out a request on a record: a PUT changes what its
\* body names of the field with the id, a DELETE removes the field with the id
ServerDo(rec, req) ==
  IF req.method = "POST"
  THEN [rec EXCEPT !.fields = (req.key :> [val |-> req.val, id |-> rec.nextId,
                                           type |-> req.type]) @@ @,
                   !.nextId = @ + 1]
  ELSE IF req.method = "PUT"
  THEN [rec EXCEPT !.fields =
          [k \in DOMAIN rec.fields |->
             IF rec.fields[k].id = req.id
             THEN [val |-> req.val, id |-> req.id,
                   type |-> IF req.type # "" THEN req.type ELSE rec.fields[k].type]
             ELSE rec.fields[k]] @@ <<>>]
  ELSE IF req.method = "DELETE"
  THEN [rec EXCEPT !.fields =
          [k \in {x \in DOMAIN rec.fields : rec.fields[x].id # req.id} |-> rec.fields[k]]
          @@ <<>>]
  ELSE rec

ApplyOp(rec, o) ==
  ServerDo(rec, IF o.kind = "upsert" THEN UpsertRequest(rec.fields, o)
                ELSE DeleteRequest(rec.fields, o))

RECURSIVE ApplyOps(_, _)
ApplyOps(rec, os) ==
  IF os = <<>> THEN rec ELSE ApplyOps(ApplyOp(rec, Head(os)), Tail(os))

-----------------------------------------------------------------------------
(* Fibers: the asynchronous call chains of the process.  Job 0 is the      *)
(* single-order submission, job j >= 1 is the bulk worker on orders[j].    *)
Callers == 1 .. MaxCallers
JobIds == 0 .. MaxRecords
CallerFib(c) == <<"caller", c>>
JobFib(j) == <<"job", j>>
OpFib(j, i) == <<"op", j, i>>

IdleFetch ==
  [phase |-> "none", attempt |-> 0, timer |-> 0, sends |-> 0, nResp |-> 0,
   first |-> NoResp, last |-> NoResp, sinceResp |-> 0, out |-> NoOut]

IsErr(out) == out.kind \notin {"none", "ok"}

\* The state the actions thread through their steps
S == [cfg |-> cfg, fetch |-> fetch, gateQ |-> gateQ, gate |-> gate,
      caller |-> caller, job |-> job, ops |-> ops, run |-> run,
      remote |-> remote, budget |-> budget, hist |-> hist, crashed |-> crashed,
      ack |-> ack]

Commit(s) ==
  \E x \in {s} :
    /\ cfg' = x.cfg
    /\ fetch' = x.fetch
    /\ gateQ' = x.gateQ
    /\ gate' = x.gate
    /\ caller' = x.caller
    /\ job' = x.job
    /\ ops' = x.ops
    /\ run' = x.run
    /\ remote' = x.remote
    /\ budget' = x.budget
    /\ hist' = x.hist
    /\ crashed' = x.crashed
    /\ ack' = x.ack
    /\ pure' = pure

-----------------------------------------------------------------------------
(* __withShopifyThrottle *)

\* await prev; return await fn(): the HTTP request starts
StartRequest(s, f) ==
  [s EXCEPT !.gate = [st |-> "busy", timer |-> 0],
            !.fetch[f].phase = "inflight",
            !.fetch[f].sends = @ + 1]

\* prev = __shopifyGate; __shopifyGate = new Promise(...); await prev.
\* prev is resolved when every earlier entrant has released
MustWaitNever(s) == FALSE
MustWait(s) == s.gate.st # "open" \/ s.gateQ # <<>>

EnterGateFirst(s, f) ==
  IF MustWait(s)
  THEN [s EXCEPT !.gateQ = <<f>> \o @, !.fetch[f].phase = "queued"]
  ELSE StartRequest(s, f)

EnterGate(s, f) ==
  IF MustWait(s)
  THEN [s EXCEPT !.gateQ = Append(@, f), !.fetch[f].phase = "queued"]
  ELSE StartRequest(s, f)

\* release(): the promise the next entrant awaits is resolved
ReleaseGate(s) ==
  IF s.gateQ = <<>> THEN [s EXCEPT !.gate = [st |-> "open", timer |-> 0]]
  ELSE StartRequest([s EXCEPT !.gateQ = Tail(@)], Head(s.gateQ))

\* finally { setTimeout(release, __SHOPIFY_MIN_GAP_MS) }
ReleaseDelaySeconds == SHOPIFY_MIN_GAP_MS \div 1000
ReleaseDelay == SHOPIFY_MIN_GAP_MS

FinishGate(s) ==
  [s EXCEPT !.gate = [st |-> "gap", timer |-> ReleaseDelay],
            !.hist.sinceFinish = 0,
            !.hist.nFin = Min(SpanN, @ + 1),
            !.hist.span = IF s.hist.nFin = 0 THEN 0 ELSE @]

-----------------------------------------------------------------------------
(* shopifyFetch *)

\* shopifyFetch(pathname, opts) called with attempt = 1
StartFetch(s, f) ==
  EnterGate([s EXCEPT !.fetch = (f :> [IdleFetch EXCEPT !.attempt = 1]) @@ @], f)

-----------------------------------------------------------------------------
(* runWithConcurrency and the end of a worker *)
NoResult == [ok |-> FALSE, id |-> 0, error |-> NoOut]

NumOrders(s) == Len(s.cfg.orders)

\* The bulk worker starts on orders[j]: it runs up to await fetchOrderMetafields
StartJob(s, j) ==
  StartFetch([s EXCEPT !.job[j].pc = "mfmap"], JobFib(j))

\* results.forEach: the two lists of the posted summary
RECURSIVE Collate(_, _, _)
Collate(orders, results, i) ==
  IF i > Len(orders) THEN [ok |-> <<>>, fail |-> <<>>]
  ELSE LET rest == Collate(orders, results, i + 1)
       IN IF results[i].ok
          THEN [rest EXCEPT !.ok = <<results[i].id>> \o @]
          ELSE [rest EXCEPT !.fail = <<orders[i]>> \o @]

\* A runner goes round its loop: idx = i++; if (idx >= items.length) break
RunnerNext(s) ==
  LET idx == s.run.next
      s1 == [s EXCEPT !.run.next = idx + 1]
  IN IF idx <= NumOrders(s) THEN StartJob(s1, idx)
     ELSE IF s.run.live > 1 THEN [s1 EXCEPT !.run.live = @ - 1]
     ELSE [s1 EXCEPT !.run.live = 0,
                     !.run.returned = TRUE,
                     !.run.summary = Collate(s.cfg.orders, s.run.results, 1)]

\* catch (e) { return { ok: false, id, error: e.message } }
JobFail(s, j, err) ==
  LET s1 == [s EXCEPT !.job[j].pc = "failed"]
  IN IF s.job[j].kind = "bulk"
     THEN RunnerNext([s1 EXCEPT !.run.results[j] =
                        [ok |-> FALSE, id |-> s.job[j].rec, error |-> err]])
     ELSE s1

JobDoneAtNext(s, j) ==
  LET s1 == [s EXCEPT !.job[j].pc = "done"]
  IN IF s.job[j].kind = "bulk"
     THEN RunnerNext([s1 EXCEPT !.run.results[s.run.next - 1] =
                        [ok |-> TRUE, id |-> s.job[j].rec, error |-> NoOut]])
     ELSE s1

\* return { ok: true, id: o.digits }; results[idx] = await worker(items[idx], idx)
JobDone(s, j) ==
  LET s1 == [s EXCEPT !.job[j].pc = "done"]
  IN IF s.job[j].kind = "bulk"
     THEN RunnerNext([s1 EXCEPT !.run.results[j] =
                        [ok |-> TRUE, id |-> s.job[j].rec, error |-> NoOut]])
     ELSE s1

-----------------------------------------------------------------------------
(* The handler code of one reconciliation *)

\* mfOps.push(upsertOrderMetafield(...)): each call runs at once up to its first
\* await, which takes the next place at the gate
RECURSIVE StartOps(_, _, _)
StartOps(s, j, descs) ==
  IF descs = <<>> THEN s
  ELSE LET i == Len(s.ops[j]) + 1
           o == [kind |-> Head(descs).kind, key |-> Head(descs).key,
                 val |-> Head(descs).val, hint |-> Head(descs).hint,
                 wrapped |-> Head(descs).wrapped,
                 st |-> "listing", method |-> "", id |-> 0,
                 stale |-> FALSE, err |-> NoOut]
       IN StartOps(StartFetch([s EXCEPT !.ops[j] = Append(@, o)], OpFib(j, i)),
                   j, Tail(descs))

\* After the loop: the tag updates of the bulk worker, or the snapshot
JobPostLoop(s, j) ==
  IF s.job[j].kind = "single" THEN [s EXCEPT !.job[j].pc = "snapshot"]
  ELSE IF s.job[j].arrange = "remove"
  THEN StartFetch([s EXCEPT !.job[j].pc = "tagsRm"], JobFib(j))
  ELSE StartFetch([s EXCEPT !.job[j].pc = "tagsInc"], JobFib(j))

JobLoopNoWait(s, j) == JobPostLoop([s EXCEPT !.job[j].li = Len(s.ops[j]) + 1], j)

\* for (const op of mfOps) await op: the loop goes on over the settled
\* operations and stops at the first pending or rejected one
JobLoop(s, j) ==
  LET os == s.ops[j]
      open == {k \in s.job[j].li .. Len(os) : os[k].st # "ok"}
  IN IF open = {} THEN JobPostLoop([s EXCEPT !.job[j].li = Len(os) + 1], j)
     ELSE LET k == CHOOSE x \in open : \A y \in open : x <= y
          IN IF os[k].st = "err" THEN JobFail([s EXCEPT !.job[j].li = k], j, os[k].err)
             ELSE [s EXCEPT !.job[j].li = k]

\* A value of the listing payload: a string, a number or null
Null == [t |-> "null"]
Str(s) == [t |-> "str", s |-> s]
Num(n) == [t |-> "num", n |-> n]

\* (x || ''): the string, or the empty string for null and for the empty string
orEmpty(x) == IF x.t = "str" THEN x.s ELSE <<>>

\* (x || '').toString(): as (x ?? '').toString() but for the number 0
toStringOr(x) == IF x.t = "str" THEN x.s ELSE IF x.t = "num" /\ x.n # 0 THEN Digits(x.n) ELSE <<>>

\* (x ?? '').toString()
toStringNullish(x) == IF x.t = "str" THEN x.s ELSE IF x.t = "num" THEN Digits(x.n) ELSE <<>>

\* fetchOrderMetafields once shopifyFetch has settled with data.metafields: the
\* loop over the listed fields, a later field overwriting an earlier one
RECURSIVE fetchOrderMetafields(_)
fetchOrderMetafields(metafields) ==
  IF metafields = <<>> THEN [k \in {} |-> <<>>]
  ELSE LET mf == metafields[Len(metafields)]
           out == fetchOrderMetafields(SubSeq(metafields, 1, Len(metafields) - 1))
           ns == Trim(orEmpty(mf.namespace))
           key == Trim(orEmpty(mf.key))
           val == Trim(toStringNullish(mf.value))
           name == ns \o <<".">> \o key
       IN IF ns # <<>> /\ key # <<>>
          THEN [k \in DOMAIN out \cup {name} |-> IF k = name THEN val ELSE out[k]]
          ELSE out

\* fetchOrderMetafields on the fields of a record of the model, which have a
\* namespace and a key and are named by their key
FieldMap(fields) == [k \in DOMAIN fields |-> Trim(fields[k].val)]

\* The worker continues after the shopifyFetch call it awaited
ResumeJob(s, j) ==
  LET jb == s.job[j]
      rem == s.remote[jb.rec]
      out == s.fetch[JobFib(j)].out
      p == parseOne(s.cfg.forms[jb.rec])
  IN IF IsErr(out) THEN JobFail(s, j, out)
     ELSE IF jb.pc = "mfmap"
     THEN LET m == FieldMap(rem.fields)
              s1 == [s EXCEPT !.job[j].pc = "tags0",
                              !.job[j].arrange = ArrangeTagAction(m)]
          IN StartFetch(StartOps(s1, j,
                 BulkPreOps(m, s.cfg.invoiceSupplier,
                            AppendLabel(s.cfg.invoiceSupplier, s.cfg.invoiceDate))), JobFib(j))
     ELSE IF jb.pc = "tags0"
     THEN JobLoop(StartOps([s EXCEPT !.job[j].pc = "loop", !.job[j].li = 1], j,
                           IF jb.kind = "bulk" THEN BulkPostOps(p, fetchOrderTags(rem.tags))
                           ELSE SinglePostOps(p, fetchOrderTags(rem.tags))), j)
     ELSE IF jb.pc = "tagsRm"
     THEN LET currentTags == fetchOrderTags(rem.tags)
              newTags == SelectSeq(currentTags, LAMBDA x : x # "ArrangeStatus_Arranged")
          IN IF Len(newTags) # Len(currentTags)
             THEN StartFetch([s EXCEPT !.job[j].pc = "tagsRmPut",
                                       !.job[j].pend = newTags], JobFib(j))
             ELSE StartFetch([s EXCEPT !.job[j].pc = "tagsInc"], JobFib(j))
     ELSE IF jb.pc = "tagsRmPut"
     THEN StartFetch([s EXCEPT !.job[j].pc = "tagsInc"], JobFib(j))
     ELSE IF jb.pc = "tagsInc"
     THEN IF ~includes(fetchOrderTags(rem.tags), "Incoming_Yes")
          THEN StartFetch([s EXCEPT !.job[j].pc = "tagsIncPut",
                                    !.job[j].pend = fetchOrderTags(rem.tags)
                                                    \o <<"Incoming_Yes">>],
                          JobFib(j))
          ELSE StartFetch([s EXCEPT !.job[j].pc = "noteGet"], JobFib(j))
     ELSE IF jb.pc = "tagsIncPut"
     THEN StartFetch([s EXCEPT !.job[j].pc = "noteGet"], JobFib(j))
     ELSE IF jb.pc = "noteGet"
     THEN StartFetch([s EXCEPT !.job[j].pc = "notePut",
                               !.job[j].pend =
                                 newNote(headerLine(s.cfg.now, s.cfg.invoiceSupplier,
                                                    s.cfg.invoiceDate), rem.note)],
                     JobFib(j))
     ELSE [s EXCEPT !.job[j].pc = "snapshot"]

-----------------------------------------------------------------------------
(* upsertOrderMetafield and deleteOrderMetafield *)

\* The promise of operation i settled.  The loop goes on when it awaits this
\* operation; a rejection nobody awaits is an unhandled rejection, which ends
\* the process or only warns, as the runtime is set up
OpSettled(s, j, i, crash) ==
  IF s.job[j].pc = "loop" /\ s.job[j].li = i THEN JobLoop(s, j)
  ELSE IF s.ops[j][i].st = "err"
  THEN [s EXCEPT !.hist.unhandled = TRUE, !.crashed = crash]
  ELSE s

\* The operation continues after the shopifyFetch call it awaited
ResumeOp(s, j, i, crash) ==
  LET o == s.ops[j][i]
      out == s.fetch[OpFib(j, i)].out
      fields == s.remote[s.job[j].rec].fields
      existing == o.key \in DOMAIN fields
  IN IF IsErr(out)
     THEN OpSettled([s EXCEPT !.ops[j][i].st = "err",
                              !.ops[j][i].err = IF o.wrapped
                                                THEN [out EXCEPT !.kind = "arrange"]
                                                ELSE out], j, i, crash)
     ELSE IF o.st = "writing"
     THEN OpSettled([s EXCEPT !.ops[j][i].st = "ok"], j, i, crash)
     ELSE IF o.kind = "delete" /\ ~existing
     THEN OpSettled([s EXCEPT !.ops[j][i].st = "ok"], j, i, crash)
     ELSE StartFetch([s EXCEPT !.ops[j][i].st = "writing",
                               !.ops[j][i].id = IF existing THEN fields[o.key].id ELSE 0,
                               !.ops[j][i].method =
                                  IF o.kind = "delete" THEN "DELETE"
                                  ELSE IF existing THEN "PUT" ELSE "POST"],
                     OpFib(j, i))

\* The fiber continues after its shopifyFetch call settled
Resume(s, f, crash) ==
  IF f[1] = "caller" THEN [s EXCEPT !.caller[f[2]] = "done"]
  ELSE IF f[1] = "job" THEN ResumeJob(s, f[2])
  ELSE ResumeOp(s, f[2], f[3], crash)

-----------------------------------------------------------------------------
(* The remote API *)

\* The record a fiber's request is about (0: none)
RecOf(s, f) == IF f[1] = "caller" THEN 0 ELSE s.job[f[2]].rec

IsOpWrite(s, f) == f[1] = "op" /\ s.ops[f[2]][f[3]].st = "writing"

\* PUT or DELETE of /metafields/{id}.json whose field is gone: the API answers 404
Gone(s, f) ==
  /\ IsOpWrite(s, f)
  /\ s.ops[f[2]][f[3]].method \in {"PUT", "DELETE"}
  /\ LET o == s.ops[f[2]][f[3]]
         fields == s.remote[RecOf(s, f)].fields
     IN o.key \notin DOMAIN fields \/ fields[o.key].id # o.id

\* Every other operation that listed the fields of the record and has not yet
\* written works on a list that is no longer current.  (\o <<>> and @@ <<>>
\* make the value an explicit sequence or function, which later EXCEPTs need.)
MarkStale(s, f) ==
  [s EXCEPT !.ops = [j \in JobIds |->
     [i \in 1 .. Len(s.ops[j]) |->
        IF s.job[j].rec = RecOf(s, f) /\ <<"op", j, i>> # f /\ s.ops[j][i].st = "writing"
        THEN [s.ops[j][i] EXCEPT !.stale = TRUE]
        ELSE s.ops[j][i]] \o <<>>] @@ <<>>]

\* The remote side carries out the request it answers with 2xx
ServerApply(s, f) ==
  LET r == RecOf(s, f) IN
  IF IsOpWrite(s, f)
  THEN LET o == s.ops[f[2]][f[3]]
           rem == s.remote[r]
           s1 == MarkStale(s, f)
       IN IF o.method = "POST"
          THEN [s1 EXCEPT !.remote[r].fields =
                   (o.key :> [val |-> o.val, id |-> rem.nextId,
                              type |-> IF o.hint # "" THEN o.hint
                                       ELSE "single_line_text_field"]) @@ @,
                          !.remote[r].nextId = @ + 1]
          ELSE IF o.method = "PUT"
          THEN [s1 EXCEPT !.remote[r].fields[o.key].val = o.val]
          ELSE [s1 EXCEPT !.remote[r].fields =
                   [k \in DOMAIN rem.fields \ {o.key} |-> rem.fields[k]] @@ <<>>]
  ELSE IF f[1] = "job" /\ s.job[f[2]].pc \in {"tagsRmPut", "tagsIncPut"}
  THEN [s EXCEPT !.remote[r].tags = TagsString(s.job[f[2]].pend)]
  ELSE IF f[1] = "job" /\ s.job[f[2]].pc = "notePut"
  THEN [s EXCEPT !.remote[r].note = s.job[f[2]].pend]
  ELSE s

-----------------------------------------------------------------------------
(* shopifyFetch, after the request *)

\* The code after "const res = await __withShopifyThrottle(...)"
OnResponse(s, f, resp, crash) ==
  LET a == s.fetch[f].attempt
      s1 == [s EXCEPT !.fetch[f].nResp = @ + 1,
                      !.fetch[f].first = IF s.fetch[f].nResp = 0 THEN resp ELSE @,
                      !.fetch[f].last = resp,
                      !.fetch[f].sinceResp = 0]
  IN IF IsRetryable(resp.status) /\ MayRetry(a)
     THEN [s1 EXCEPT !.fetch[f].phase = "sleeping",
                     !.fetch[f].timer = RetryDelay(resp, a)]
     ELSE IF ~IsOk(resp.status)
     THEN Resume([s1 EXCEPT !.fetch[f].phase = "none",
                            !.fetch[f].out = HttpErr(resp, s1.fetch[f].nResp)], f, crash)
     ELSE Resume([s1 EXCEPT !.fetch[f].phase = "none",
                            !.fetch[f].out = OkOut(resp, s1.fetch[f].nResp)], f, crash)

-----------------------------------------------------------------------------
(* Actions *)

\* A handler calls shopifyFetch (the post-start ping, a lookup)
Call(c) ==
  /\ ~crashed
  /\ c <= cfg.nCallers
  /\ caller[c] = "idle"
  /\ Commit(StartFetch([S EXCEPT !.caller[c] = "fetching"], CallerFib(c)))

StartRunnersThree(s, k) == RunnerNext(RunnerNext(RunnerNext(s)))

\* runWithConcurrency(max, orders, worker): min(max, n) runners start in turn
RECURSIVE StartRunners(_, _)
StartRunners(s, k) == IF k = 0 THEN s ELSE StartRunners(RunnerNext(s), k - 1)

\* The bulk form is submitted: the handler answers with the errors of the
\* form, or acknowledges it and runs up to await Promise.all
SubmitBulk ==
  /\ ~crashed
  /\ ~run.started
  /\ cfg.orders # <<>>
  /\ LET k == Min(cfg.max, Len(cfg.orders))
         errors == UNION {ValidationErrors(parseOne(cfg.forms[cfg.orders[i]]), cfg.orders[i]) :
                            i \in 1 .. Len(cfg.orders)}
         s1 == [S EXCEPT !.run.started = TRUE,
                         !.ack.bulk = [sent |-> TRUE, errors |-> errors]]
     IN IF errors # {} THEN Commit(s1)
        ELSE Commit(StartRunners([s1 EXCEPT !.run.live = k], k))

\* The single-order form is submitted: the handler answers with the errors of
\* the form, or acknowledges it, starts its first eleven operations and awaits
\* fetchOrderTags
SubmitSingle ==
  /\ ~crashed
  /\ cfg.single # 0
  /\ job[0].pc = "off"
  /\ LET p == parseOne(cfg.forms[cfg.single])
         errors == ValidationErrors(p, 0)
         s0 == [S EXCEPT !.ack.single = [sent |-> TRUE, errors |-> errors]]
         s1 == [s0 EXCEPT !.job[0].pc = "tags0"]
     IN IF errors # {} THEN Commit([s0 EXCEPT !.job[0].pc = "rejected"])
        ELSE Commit(StartFetch(StartOps(s1, 0, SinglePreOps(p)), JobFib(0)))

\* The HTTP response arrives
Respond(f, resp, crash) ==
  /\ ~crashed
  /\ f \in DOMAIN fetch
  /\ fetch[f].phase = "inflight"
  /\ Gone(S, f) => ~IsOk(resp.status)
  /\ IsRetryable(resp.status) => budget.retry > 0
  /\ (~IsOk(resp.status) /\ ~IsRetryable(resp.status) /\ ~Gone(S, f)) => budget.fail > 0
  /\ LET s1 == [S EXCEPT !.budget.retry = IF IsRetryable(resp.status) THEN @ - 1 ELSE @,
                         !.budget.fail = IF ~IsOk(resp.status) /\ ~IsRetryable(resp.status)
                                            /\ ~Gone(S, f)
                                         THEN @ - 1 ELSE @]
         s2 == IF IsOk(resp.status) THEN ServerApply(s1, f) ELSE s1
     IN Commit(OnResponse(FinishGate(s2), f, resp, crash))

NetworkErrorNoRelease(f, crash) ==
  /\ ~crashed
  /\ f \in DOMAIN fetch
  /\ fetch[f].phase = "inflight"
  /\ budget.fail > 0
  /\ LET s1 == [S EXCEPT !.budget.fail = @ - 1]
     IN Commit(Resume([s1 EXCEPT !.fetch[f].phase = "none",
                                 !.fetch[f].out = NetErr], f, crash))

\* fetch() rejects: the error passes through the finally and out of shopifyFetch
NetworkError(f, crash) ==
  /\ ~crashed
  /\ f \in DOMAIN fetch
  /\ fetch[f].phase = "inflight"
  /\ budget.fail > 0
  /\ LET s1 == FinishGate([S EXCEPT !.budget.fail = @ - 1])
     IN Commit(Resume([s1 EXCEPT !.fetch[f].phase = "none",
                                 !.fetch[f].out = NetErr], f, crash))

\* The backoff timer fires: return shopifyFetch(pathname, opts, attempt + 1)
Wake(f) ==
  /\ ~crashed
  /\ f \in DOMAIN fetch
  /\ fetch[f].phase = "sleeping"
  /\ fetch[f].timer = 0
  /\ Commit(EnterGate([S EXCEPT !.fetch[f].attempt = @ + 1], f))

\* The release timer fires: release()
Release ==
  /\ ~crashed
  /\ gate.st = "gap"
  /\ gate.timer = 0
  /\ Commit(ReleaseGate(S))

\* ensureDirs and writeJsonAtomic end: the snapshot is written, or the write fails
Snapshot(j, ok) ==
  /\ ~crashed
  /\ job[j].pc = "snapshot"
  /\ ~ok => budget.fail > 0
  /\ Commit(IF ok THEN JobDone(S, j)
            ELSE JobFail([S EXCEPT !.budget.fail = @ - 1], j,
                         [kind |-> "fs", status |-> 0, body |-> 0]))

\* Tick ms pass
Advance(s) ==
  [s EXCEPT
     !.gate.timer = Max(0, @ - Tick),
     !.fetch = [f \in DOMAIN s.fetch |->
        LET x == s.fetch[f] IN
        [x EXCEPT !.timer = Max(0, @ - Tick),
                  !.sinceResp = IF x.phase \in {"sleeping", "queued"}
                                THEN Min(ServerDelay(x.last), @ + Tick) ELSE @]] @@ <<>>,
     !.hist.sinceFinish = IF s.hist.nFin > 0 THEN Min(SHOPIFY_MIN_GAP_MS, @ + Tick) ELSE @,
     !.hist.span = IF s.hist.nFin > 0 THEN Min((SpanN - 1) * SHOPIFY_MIN_GAP_MS, @ + Tick)
                   ELSE @]

\* A timer that is due fires before more time passes
TimerDue ==
  \/ gate.st = "gap" /\ gate.timer = 0
  \/ \E f \in DOMAIN fetch : fetch[f].phase = "sleeping" /\ fetch[f].timer = 0

TickStep ==
  /\ ~crashed
  /\ ~TimerDue
  /\ Advance(S) # S
  /\ Commit(Advance(S))

-----------------------------------------------------------------------------
(* The inputs *)
BlankRecord ==
  [fields |-> [k \in {} |-> 0], nextId |-> 1, tags |-> <<>>, note |-> <<>>]

Field(val, id) == [val |-> val, id |-> id, type |-> "single_line_text_field"]

\* A record arranged with one supplier, with a legacy nc_incoming variant
ArrangedSingle ==
  [fields |-> [k \in {"arrange_status", "_nc_arranged_with", "nc_incoming_old", "parts_other"} |->
                 IF k = "arrange_status" THEN Field(<<"Arranged">>, 1)
                 ELSE IF k = "_nc_arranged_with" THEN Field(<<"A">>, 2)
                 ELSE IF k = "nc_incoming_old" THEN Field(<<"x">>, 3)
                 ELSE Field(<<"old">>, 4)],
   nextId |-> 5,
   tags |-> <<"ArrangeStatus_Arranged", ",", " ", "PartsSupplier_A">>,
   note |-> <<"n0">>]

\* The clock of an earlier run, and of the run of the model
EarlierRun == [getMonth |-> 9, getDate |-> 30, getFullYear |-> 2026]
ThisRun == [getMonth |-> 10, getDate |-> 2, getFullYear |-> 2026]

\* A record arranged with two suppliers, whose note holds the header of an
\* earlier reconciliation
ArrangedMulti ==
  [fields |-> [k \in {"arrange_status", "_nc_arranged_with"} |->
                 IF k = "arrange_status" THEN Field(<<"Arranged">>, 1)
                 ELSE Field(<<"A", " ", "&", " ", "B">>, 2)],
   nextId |-> 3,
   tags |-> <<"VIP", ",", "ArrangeStatus_Arranged", ",", " ", "Incoming_Yes", ",">>,
   note |-> newNote(headerLine(EarlierRun, "B", "10/30"), <<"n1", "\n", "n2">>)]

RecordPreset(r) ==
  IF r % 3 = 1 THEN ArrangedSingle ELSE IF r % 3 = 2 THEN BlankRecord ELSE ArrangedMulti

\* Records arranged with several suppliers: the plain list, a list without
\* blanks around the '&', a list whose second name is missing
AltPresets ==
  <<ArrangedMulti,
    [ArrangedMulti EXCEPT !.fields["_nc_arranged_with"].val = <<"A", "&", "B", " ">>],
    [ArrangedMulti EXCEPT !.fields["_nc_arranged_with"].val = <<"A", " ", "&">>]>>

\* The record r as it is on the remote side when the run begins
InitialRecord(c, r) ==
  IF c.preset # 0 /\ r = 1 THEN AltPresets[c.preset] ELSE RecordPreset(r)

FormPreset(r) ==
  IF r % 2 = 1
  THEN [checked |-> {"trim", "set_aside"}, otherText |-> <<"o">>, setAsideText |-> <<"s">>,
        fulfillment |-> "tbd", payment |-> "deposit"]
  ELSE [checked |-> {"steering_wheel"}, otherText |-> <<>>, setAsideText |-> <<>>,
        fulfillment |-> "ship", payment |-> "pif"]

BaseCfg ==
  [nCallers |-> 0, orders |-> <<>>, max |-> 1, single |-> 0, preset |-> 0,
   forms |-> [r \in Records |-> FormPreset(r)],
   invoiceSupplier |-> "A", invoiceDate |-> "11/02",
   now |-> ThisRun,
   retry |-> 0, fail |-> 0]

\* Plain callers of the transport: one caller with every retry the cap can
\* take, or several callers with a few retries between them
TransportConfigs ==
  {[BaseCfg EXCEPT !.nCallers = n, !.fail = f,
                   !.retry = IF n = 1 THEN MaxRetryResponses ELSE MaxSharedRetries] :
     n \in 1 .. MaxCallers, f \in 0 .. MaxFailResponses}

\* What the remote side may answer during form submissions: one retryable
\* response, or one failure
RetryOnce == [retry |-> 1, fail |-> 0]
FailOnce == [retry |-> 0, fail |-> 1]

\* One bulk submission of the records 1 .. n
BulkConfigs ==
  {[BaseCfg EXCEPT !.orders = [i \in 1 .. n |-> i], !.max = m, !.fail = FailOnce.fail] :
     n \in 1 .. MaxRecords, m \in 1 .. MaxWorkers}
  \cup {[BaseCfg EXCEPT !.orders = <<1>>, !.retry = RetryOnce.retry]}

\* A single-order submission, alone or beside a bulk submission of the same record
SingleConfigs ==
  {[BaseCfg EXCEPT !.single = 1, !.fail = FailOnce.fail],
   [BaseCfg EXCEPT !.single = 1, !.orders = <<1>>]}

\* Forms that fail the validation: a flag checked with no text, or with blanks
InvalidForms ==
  {[FormPreset(1) EXCEPT !.checked = {"trim", "other"}, !.otherText = <<" ">>],
   [FormPreset(1) EXCEPT !.checked = {"set_aside"}, !.setAsideText = <<>>],
   [FormPreset(1) EXCEPT !.checked = {"other", "set_aside"}, !.otherText = <<>>,
                         !.setAsideText = <<" ", " ">>]}

\* Submissions with an invalid form: the single-order form, or the form of the
\* last record of a bulk submission
InvalidConfigs ==
  {[BaseCfg EXCEPT !.single = 1, !.forms[1] = f] : f \in InvalidForms}
  \cup {[BaseCfg EXCEPT !.orders = [i \in 1 .. MaxRecords |-> i], !.forms[MaxRecords] = f] :
          f \in InvalidForms}

\* One bulk submission of record 1, which is arranged with several suppliers,
\* for an invoice of one of them or of another supplier
ArrangedConfigs ==
  {[BaseCfg EXCEPT !.orders = <<1>>, !.preset = k, !.invoiceSupplier = s] :
     k \in 1 .. Len(AltPresets), s \in {"A", "C"}}

Configs ==
  TransportConfigs \cup BulkConfigs \cup SingleConfigs \cup InvalidConfigs
  \cup ArrangedConfigs

NoAck == [single |-> [sent |-> FALSE, errors |-> {}],
          bulk |-> [sent |-> FALSE, errors |-> {}]]

\* In the runs of the handlers the compiler has no inputs of its own
PureOff == [pc |-> "off"]

Init ==
  /\ cfg \in Configs
  /\ fetch = [f \in {} |-> IdleFetch]
  /\ gateQ = <<>>
  /\ gate = [st |-> "open", timer |-> 0]
  /\ caller = [c \in Callers |-> "idle"]
  /\ job = [j \in JobIds |->
              [kind |-> IF j = 0 THEN "single" ELSE "bulk",
               rec |-> IF j = 0 THEN cfg.single ELSE j,
               pc |-> "off", li |-> 0, arrange |-> "leave", pend |-> <<>>]]
  /\ ops = [j \in JobIds |-> <<>>]
  /\ run = [started |-> FALSE, next |-> 1, live |-> 0, returned |-> FALSE,
            results |-> [i \in 1 .. Len(cfg.orders) |-> NoResult],
            summary |-> [ok |-> <<>>, fail |-> <<>>]]
  /\ remote = [r \in Records |-> InitialRecord(cfg, r)]
  /\ budget = [retry |-> cfg.retry, fail |-> cfg.fail]
  /\ hist = [sinceFinish |-> 0, nFin |-> 0, span |-> 0, unhandled |-> FALSE]
  /\ crashed = FALSE
  /\ ack = NoAck
  /\ pure = PureOff

\* The fibers whose HTTP request is under way
InFlight == {f \in DOMAIN fetch : fetch[f].phase = "inflight"}

Next ==
  \/ \E c \in Callers : Call(c)
  \/ SubmitBulk
  \/ SubmitSingle
  \/ \E f \in InFlight, resp \in Responses, crash \in BOOLEAN : Respond(f, resp, crash)
  \/ \E f \in InFlight, crash \in BOOLEAN : NetworkError(f, crash)
  \/ \E f \in DOMAIN fetch : Wake(f)
  \/ Release
  \/ \E j \in JobIds, ok \in BOOLEAN : Snapshot(j, ok)
  \/ TickStep

Spec == Init /\ [][Next]_vars

-----------------------------------------------------------------------------
(* The compiler and the extractor on inputs of their own: every form with   *)
(* up to MaxChecked boxes checked on a blank record, and the preset forms   *)
(* on records that hold fields already                                      *)

handlerVars == <<cfg, fetch, gateQ, gate, caller, job, ops, run, remote, budget, hist,
                 crashed, ack>>

AllFlags == PartNames \cup {"other", "set_aside"}
RawTexts == {<<>>, <<" ">>, <<" ", "o", "p", " ">>}
Fulfillments == {"ship", "install_pickup", "tbd"}
Payments == {"pif", "deposit", "pif_prepaid_install", "unpaid", "unknown"}

Forms ==
  [checked : {c \in SUBSET AllFlags : Cardinality(c) <= MaxChecked},
   otherText : RawTexts, setAsideText : RawTexts,
   fulfillment : Fulfillments, payment : Payments]

TagSets == {<<>>, <<"PartsSupplier_A", "VIP", "PartsSupplier_B">>}

\* A tag string that names one supplier twice and holds the bare prefix
RepeatedTags == <<"PartsSupplier_A", "PartsSupplier_", "PartsSupplier_A">>

\* A record with stray values and the marker set to something else than yes
StrayRecord ==
  [fields |-> [k \in {"initial_slack_tagging_done", "parts_trim", "parts_other",
                      "ship_install_pickup", "pif_or_not"} |->
                 IF k = "initial_slack_tagging_done" THEN Field(<<"No">>, 1)
                 ELSE IF k = "parts_trim" THEN Field(<<"Trim">>, 2)
                 ELSE IF k = "parts_other" THEN Field(<<"x">>, 3)
                 ELSE IF k = "ship_install_pickup" THEN Field(<<"TBD">>, 4)
                 ELSE Field(<<"Deposit">>, 5)],
   nextId |-> 6, tags |-> <<>>, note |-> <<>>]

\* A record whose marker reads yes once trimmed and lowercased, with the
\* canonical nc_incoming field and a variant of it
MarkedRecord ==
  [fields |-> [k \in {"initial_slack_tagging_done", "parts_trim", "pif_or_not",
                      "nc_incoming", "nc_incoming_old", "_back_end_incoming_invoice"} |->
                 IF k = "initial_slack_tagging_done" THEN Field(<<" ", "YES", " ">>, 1)
                 ELSE IF k = "parts_trim" THEN Field(<<"Trim">>, 2)
                 ELSE IF k = "pif_or_not" THEN Field(<<"Deposit">>, 3)
                 ELSE IF k = "nc_incoming" THEN Field(<<"INCOMING">>, 4)
                 ELSE IF k = "nc_incoming_old" THEN Field(<<"x">>, 5)
                 ELSE Field(<<"B", " ", "10/01", " ", "Invoice">>, 6)],
   nextId |-> 7, tags |-> <<>>, note |-> <<>>]

ExistingRecords == {ArrangedSingle, ArrangedMulti, StrayRecord, MarkedRecord}

CompileInputs ==
  {[form |-> f, rec |-> BlankRecord, tags |-> g, supplier |-> "A"] :
     f \in Forms, g \in TagSets}
  \cup {[form |-> FormPreset(i), rec |-> r, tags |-> g, supplier |-> s] :
          i \in 1 .. 2, r \in ExistingRecords \cup {BlankRecord},
          g \in TagSets \cup {RepeatedTags}, s \in {"A", "C"}}

CompileInit ==
  /\ cfg = BaseCfg
  /\ fetch = [f \in {} |-> IdleFetch]
  /\ gateQ = <<>>
  /\ gate = [st |-> "open", timer |-> 0]
  /\ caller = [c \in Callers |-> "idle"]
  /\ job = [j \in JobIds |->
              [kind |-> IF j = 0 THEN "single" ELSE "bulk",
               rec |-> j, pc |-> "off", li |-> 0, arrange |-> "leave", pend |-> <<>>]]
  /\ ops = [j \in JobIds |-> <<>>]
  /\ run = [started |-> FALSE, next |-> 1, live |-> 0, returned |-> FALSE,
            results |-> <<>>, summary |-> [ok |-> <<>>, fail |-> <<>>]]
  /\ remote = [r \in Records |-> InitialRecord(cfg, r)]
  /\ budget = [retry |-> 0, fail |-> 0]
  /\ hist = [sinceFinish |-> 0, nFin |-> 0, span |-> 0, unhandled |-> FALSE]
  /\ crashed = FALSE
  /\ ack = NoAck
  /\ \E in \in CompileInputs :
       pure = [pc |-> "input", form |-> in.form, rec |-> in.rec, tags |-> in.tags,
               supplier |-> in.supplier, handler |-> "", errors |-> {}, ops |-> <<>>,
               round |-> 1, first |-> in.rec, log |-> <<>>,
               once |-> BlankRecord, twice |-> BlankRecord,
               initials |-> buildInitialsFromMetafields(<<>>)]

\* The validation of the submit handlers
Validate ==
  /\ pure.pc = "input"
  /\ LET errors == ValidationErrors(parseOne(pure.form), 1)
     IN pure' = [pure EXCEPT !.errors = errors,
                             !.pc = IF errors = {} THEN "valid" ELSE "rejected"]
  /\ UNCHANGED handlerVars

\* mfOps as handler h puts it together for a valid form
Compile(h) ==
  /\ pure.pc = "valid"
  /\ LET p == parseOne(pure.form)
         label == AppendLabel(pure.supplier, cfg.invoiceDate)
     IN pure' = [pure EXCEPT
                   !.pc = "compiled",
                   !.handler = h,
                   !.ops = IF h = "bulk"
                           THEN BulkOps(p, FieldMap(pure.rec.fields), pure.supplier,
                                        label, pure.tags)
                           ELSE SingleOps(p, pure.tags)]
  /\ UNCHANGED handlerVars

\* The operations are carried out on the record, one after another
Apply ==
  /\ pure.pc = "compiled"
  /\ pure' = [pure EXCEPT !.pc = "once", !.once = ApplyOps(pure.rec, pure.ops),
                          !.log = IF pure.handler = "bulk" THEN Append(@, pure.supplier)
                                  ELSE @]
  /\ UNCHANGED handlerVars

\* ... and once more
ApplyAgain ==
  /\ pure.pc = "once"
  /\ pure' = [pure EXCEPT !.pc = "twice", !.twice = ApplyOps(pure.once, pure.ops)]
  /\ UNCHANGED handlerVars

\* fetchOrderMetafields and buildInitialsFromMetafields on the record written
Extract ==
  /\ pure.pc = "once"
  /\ pure' = [pure EXCEPT !.pc = "read",
                          !.initials = buildInitialsFromMetafields(FieldMap(pure.once.fields))]
  /\ UNCHANGED handlerVars

\* fetchOrderMetafields and buildInitialsFromMetafields on the record as found
ExtractExisting ==
  /\ pure.pc = "input"
  /\ pure' = [pure EXCEPT !.pc = "found",
                          !.initials = buildInitialsFromMetafields(FieldMap(pure.rec.fields))]
  /\ UNCHANGED handlerVars

\* A preset form is submitted again for the record as the bulk handler left
\* it, with the invoice of supplier s
Resubmit(s) ==
  /\ pure.pc = "read"
  /\ \E i \in 1 .. 2 : pure.form = FormPreset(i)
  /\ pure.handler = "bulk"
  /\ pure.round < MaxRounds
  /\ pure' = [pure EXCEPT !.pc = "input", !.rec = pure.once, !.supplier = s,
                          !.round = @ + 1, !.handler = "", !.ops = <<>>,
                          !.once = BlankRecord, !.twice = BlankRecord,
                          !.initials = buildInitialsFromMetafields(<<>>)]
  /\ UNCHANGED handlerVars

CompileNext ==
  \/ Validate
  \/ \E h \in {"bulk", "single"} : Compile(h)
  \/ Apply
  \/ ApplyAgain
  \/ Extract
  \/ ExtractExisting
  \/ \E s \in {"A", "C"} : Resubmit(s)

CompileSpec == CompileInit /\ [][CompileNext]_vars

-----------------------------------------------------------------------------
(* The field operations and the lookup of the client on inputs of their own *)

\* A record with the field 'parts_trim' of another namespace than 'custom';
\* the model names a field outside 'custom' by namespace.key
ForeignRecord ==
  [fields |-> [k \in {"global.parts_trim", "parts_other"} |->
                 IF k = "global.parts_trim" THEN Field(<<"g">>, 1) ELSE Field(<<"x">>, 2)],
   nextId |-> 3, tags |-> <<>>, note |-> <<>>]

FieldOps ==
  {UpsertHint(k, v, h) : k \in {"parts_trim", "parts_other", "nc_incoming"},
                         v \in {<<"Trim">>, <<"o", "p">>},
                         h \in {"", "multi_line_text_field"}}
  \cup {Delete(k) : k \in {"parts_trim", "parts_other", "nc_incoming"}}

\* The order codes typed into the form, and what the remote search answers
Codes == {"1001", "1002"}
CodeLists == {<<a>> : a \in Codes} \cup {l \in Codes \X Codes : l[1] # l[2]}

Candidate(name, id) == [isString |-> TRUE, name |-> name, id |-> id]

\* data of /orders.json?name=C%23<digits>&status=any, answer number n: nothing,
\* the order, near matches only, a near match before the order, no answer
SearchKinds == 1 .. 5
SearchResult(digits, n) ==
  LET exact == Candidate(<<"C#", digits>>, 7)
      longer == Candidate(<<"C#", digits, "0">>, 8)
      nameless == [isString |-> FALSE, name |-> <<>>, id |-> 9]
  IN [ok |-> n # 5,
      orders |-> CASE n = 2 -> <<exact>>
                   [] n = 3 -> <<longer, nameless>>
                   [] n = 4 -> <<longer, exact>>
                   [] OTHER -> <<>>]

NotFoundError(digits) == [kind |-> "error", id |-> 0,
                          message |-> <<"Order ", "C#", digits, " not found">>]
FetchError == [kind |-> "error", id |-> 0, message |-> <<"Shopify GET failed">>]

findOrderByNameFirstCandidate(data, digits) ==
  IF ~data.ok THEN FetchError
  ELSE IF data.orders = <<>> THEN NotFoundError(digits)
  ELSE [kind |-> "order", id |-> data.orders[1].id, message |-> <<>>]

\* findOrderByName once shopifyFetch has settled with data
findOrderByName(data, digits) ==
  LET expected == <<"C#", digits>>
      hits == {i \in 1 .. Len(data.orders) :
                 data.orders[i].isString /\ data.orders[i].name = expected}
  IN IF ~data.ok THEN FetchError
     ELSE IF hits = {} THEN NotFoundError(digits)
     ELSE [kind |-> "order", message |-> <<>>,
           id |-> data.orders[CHOOSE i \in hits : \A k \in hits : i <= k].id]

\* The fields a listing may hold: namespaces, keys and values that are null,
\* empty, blank, padded with blanks, or a number
MaxListed == 2
ListedNamespaces == {Null, Str(<<" ">>), Str(<<"custom">>), Str(<<" ", "custom">>), Str(<<"global">>)}
ListedKeys == {Null, Str(<<>>), Str(<<"k">>), Str(<<"k", " ">>), Str(<<"j">>)}
ListedValues == {Null, Str(<<"v">>), Str(<<" ", "w", " ", "x", " ">>), Num(0), Num(25)}
Listings ==
  UNION {[1 .. n -> [namespace : ListedNamespaces, key : ListedKeys, value : ListedValues]] :
           n \in 0 .. MaxListed}

\* The maps handed to buildInitialsFromMetafields: per field, no entry or one
\* of a few values, blank, recognised or not
MapChoices ==
  [initial_slack_tagging_done : {Null, Str(<<"No">>), Str(<<"Yes">>), Str(<<" ", "YES", " ">>)},
   ship_install_pickup : {Null, Str(<<>>), Str(<<" ">>), Str(<<"Ship">>), Str(<<"Install/Pickup">>),
                          Str(<<"TBD">>), Str(<<"tbd">>), Str(<<"Pickup">>)},
   pif_or_not : {Null, Str(<<" ">>), Str(<<"PIF">>), Str(<<"Deposit">>),
                 Str(<<"PIF + Pre-Paid Install">>), Str(<<"Unpaid">>), Str(<<"Unknown">>),
                 Str(<<"unpaid">>), Str(<<"Paid">>)},
   parts_other : {Null, Str(<<" ">>), Str(<<"o">>)},
   parts_set_aside_already : {Null, Str(<<>>), Str(<<"s", " ">>)},
   parts_trim : {Null, Str(<<"TRIM">>)}]

MapOfChoice(c) == [k \in {x \in DOMAIN c : c[x].t = "str"} |-> c[k].s]

ClientInit ==
  /\ cfg = BaseCfg
  /\ fetch = [f \in {} |-> IdleFetch]
  /\ gateQ = <<>>
  /\ gate = [st |-> "open", timer |-> 0]
  /\ caller = [c \in Callers |-> "idle"]
  /\ job = [j \in JobIds |->
              [kind |-> IF j = 0 THEN "single" ELSE "bulk",
               rec |-> j, pc |-> "off", li |-> 0, arrange |-> "leave", pend |-> <<>>]]
  /\ ops = [j \in JobIds |-> <<>>]
  /\ run = [started |-> FALSE, next |-> 1, live |-> 0, returned |-> FALSE,
            results |-> <<>>, summary |-> [ok |-> <<>>, fail |-> <<>>]]
  /\ remote = [r \in Records |-> InitialRecord(cfg, r)]
  /\ budget = [retry |-> 0, fail |-> 0]
  /\ hist = [sinceFinish |-> 0, nFin |-> 0, span |-> 0, unhandled |-> FALSE]
  /\ crashed = FALSE
  /\ ack = NoAck
  /\ \/ \E r \in ExistingRecords \cup {BlankRecord, ForeignRecord}, o \in FieldOps :
          pure = [pc |-> "field", rec |-> r, op |-> o, reqs |-> <<>>, after |-> r]
     \/ \E l \in CodeLists, s \in [Codes -> SearchKinds] :
          pure = [pc |-> "lookup", codes |-> l, search |-> s, i |-> 1,
                  found |-> <<>>, failed |-> <<>>, logged |-> <<>>]
     \/ \E c \in MapChoices :
          pure = [pc |-> "map", mfMap |-> MapOfChoice(c),
                  initials |-> buildInitialsFromMetafields(<<>>)]
     \/ \E l \in Listings :
          pure = [pc |-> "listing", metafields |-> l, out |-> [k \in {} |-> <<>>]]

\* upsertOrderMetafield with nothing else at work on the record
UpsertField ==
  /\ pure.pc = "field"
  /\ pure.op.kind = "upsert"
  /\ LET req == UpsertRequest(pure.rec.fields, pure.op)
     IN pure' = [pure EXCEPT !.pc = "upserted", !.reqs = <<ListRequest, req>>,
                             !.after = ApplyOp(pure.rec, pure.op)]
  /\ UNCHANGED handlerVars

\* deleteOrderMetafield with nothing else at work on the record
DeleteField ==
  /\ pure.pc = "field"
  /\ pure.op.kind = "delete"
  /\ LET req == DeleteRequest(pure.rec.fields, pure.op)
     IN pure' = [pure EXCEPT !.pc = "deleted",
                             !.reqs = <<ListRequest>>
                                      \o (IF req = NoRequest THEN <<>> ELSE <<req>>),
                             !.after = ApplyOp(pure.rec, pure.op)]
  /\ UNCHANGED handlerVars

\* One round of the lookup loop of invoice_review_collect_orders
Lookup ==
  /\ pure.pc = "lookup"
  /\ pure.i <= Len(pure.codes)
  /\ LET digits == pure.codes[pure.i]
         order == findOrderByName(SearchResult(digits, pure.search[digits]), digits)
     IN pure' = IF order.kind = "order"
                THEN [pure EXCEPT !.i = @ + 1,
                                  !.found = Append(@, [digits |-> digits, id |-> order.id])]
                ELSE [pure EXCEPT !.i = @ + 1,
                                  !.failed = Append(@, digits),
                                  !.logged = Append(@, order.message)]
  /\ UNCHANGED handlerVars

\* fetchOrderMetafields returns the map of a listing
ListFields ==
  /\ pure.pc = "listing"
  /\ pure' = [pure EXCEPT !.pc = "listed", !.out = fetchOrderMetafields(pure.metafields)]
  /\ UNCHANGED handlerVars

\* buildInitialsFromMetafields returns the initial selections of a map
BuildInitials ==
  /\ pure.pc = "map"
  /\ pure' = [pure EXCEPT !.pc = "initials",
                          !.initials = buildInitialsFromMetafields(pure.mfMap)]
  /\ UNCHANGED handlerVars

ClientNext == UpsertField \/ DeleteField \/ Lookup \/ ListFields \/ BuildInitials

ClientSpec == ClientInit /\ [][ClientNext]_vars

-----------------------------------------------------------------------------
(* Properties *)

BulkJobs == 1 .. Len(cfg.orders)

OpSettledNow(j, i) == ops[j][i].st \in {"ok", "err"}

\* Operation i of job j has sent a request of its own
OpIssued(j, i) == ops[j][i].st # "listing" \/ fetch[OpFib(j, i)].sends > 0

\* The fibers of job j
FibersOf(j) == {f \in DOMAIN fetch : f[1] # "caller" /\ f[2] = j}

\* C1: at every moment at most one HTTP request is in flight in the whole
\* process, whoever called shopifyFetch and whether or not it is a retry: a
\* request starts only when the one admitted before it has finished.
C1_OneRequestInFlight ==
  /\ Cardinality(InFlight) <= 1
  /\ InFlight # {} <=> gate.st = "busy"

C1_Witness ==
  \E f \in InFlight : fetch[f].attempt >= 2 /\ gateQ # <<>>

\* C2: a request starts no earlier than the minimum gap after the request
\* admitted before it finished, so the n-th request finishes at least
\* (n - 1) x gap after the first one did.
C2_MinGap ==
  /\ (InFlight # {} /\ hist.nFin > 0) => hist.sinceFinish >= SHOPIFY_MIN_GAP_MS
  /\ hist.span >= (hist.nFin - 1) * SHOPIFY_MIN_GAP_MS

C2_Witness == hist.nFin = SpanN /\ InFlight # {} /\ gateQ # <<>>

\* C3: the field operations of one reconciliation run one after another: no
\* operation sends a request before every earlier operation of the same
\* record has completed.
C3_OpsOneAfterAnother ==
  \A j \in JobIds : \A i, k \in 1 .. Len(ops[j]) :
    (i < k /\ OpIssued(j, k)) => OpSettledNow(j, i)

\* C4: with concurrency 1, no request of a later record is in flight while an
\* operation started for an earlier record is unfinished.
C4_OneRecordAtATime ==
  cfg.max = 1 =>
    \A j, k \in BulkJobs :
      (j < k /\ FibersOf(k) \cap InFlight # {}) =>
        \A i \in 1 .. Len(ops[j]) : OpSettledNow(j, i)

\* The reconciliations with work under way on record r
ActiveStreams(r) ==
  {j \in JobIds : /\ job[j].rec = r
                  /\ \/ job[j].pc \notin {"off", "done", "failed", "rejected"}
                     \/ \E i \in 1 .. Len(ops[j]) : ~OpSettledNow(j, i)}

\* C5: at most one reconciliation is under way on a record at any moment, so
\* no upsert or delete writes on the strength of a field list that another
\* operation on the record has changed since.
C5_OneStreamPerRecord ==
  /\ \A r \in Records : Cardinality(ActiveStreams(r)) <= 1
  /\ \A j \in JobIds : \A i \in 1 .. Len(ops[j]) :
       (ops[j][i].st = "writing" /\ OpFib(j, i) \in InFlight) => ~ops[j][i].stale

\* A remote call or the snapshot of job j failed
Errored(j) ==
  \/ job[j].pc = "failed"
  \/ \E i \in 1 .. Len(ops[j]) : ops[j][i].st = "err"

\* C6: a failure in one record never aborts the run: each failing record gets
\* a failed result with the error, every other record is processed to the end
\* and marked succeeded with its operations applied.
C6_FailureIsolation ==
  /\ (run.started /\ cfg.single = 0) => ~crashed
  /\ run.returned =>
       \A j \in BulkJobs :
         IF Errored(j)
         THEN ~run.results[j].ok /\ IsErr(run.results[j].error)
         ELSE /\ run.results[j].ok
              /\ job[j].pc = "done"
              /\ \A i \in 1 .. Len(ops[j]) : ops[j][i].st = "ok"

Occurrences(seq, x) == Cardinality({i \in 1 .. Len(seq) : seq[i] = x})

\* C7: the results of a run have one entry per input record, entry i being the
\* outcome of record i, whatever the concurrency and the order of completion;
\* the summary names each record once, in the updated or in the failed list.
C7_ResultsByIndex ==
  run.returned =>
    /\ DOMAIN run.results = BulkJobs
    /\ \A j \in BulkJobs :
         /\ run.results[j].id = cfg.orders[j]
         /\ run.results[j].ok <=> job[j].pc = "done"
         /\ ~run.results[j].ok <=> job[j].pc = "failed"
         /\ Occurrences(run.summary.ok, cfg.orders[j]) = (IF run.results[j].ok THEN 1 ELSE 0)
         /\ Occurrences(run.summary.fail, cfg.orders[j]) = (IF run.results[j].ok THEN 0 ELSE 1)
    /\ Len(run.summary.ok) + Len(run.summary.fail) = Len(cfg.orders)

C7_Witness ==
  /\ run.returned
  /\ cfg.max = 2
  /\ \E j, k \in BulkJobs : run.results[j].ok /\ ~run.results[k].ok

\* C8: one transport call sends its request at most 5 times, and a call that
\* ends on an error response fails with that response's status and body.
C8_AtMostFiveSends ==
  \A f \in DOMAIN fetch :
    /\ fetch[f].sends <= 5
    /\ (fetch[f].out.kind = "err" /\ fetch[f].out # NetErr) =>
         fetch[f].out = HttpErr(fetch[f].last, fetch[f].nResp)

\* C9: a response that is neither 2xx nor 429 nor 5xx ends the call at once
\* with an error carrying its status, and nothing is returned; a 2xx response
\* ends it at once with the result.
C9_NoRetryOnOtherStatus ==
  \A f \in DOMAIN fetch :
    LET x == fetch[f] IN
    /\ (x.nResp >= 1 /\ ~IsOk(x.last.status) /\ x.last.status # 429 /\ x.last.status < 500) =>
         /\ x.phase = "none"
         /\ x.out = HttpErr(x.last, x.nResp)
         /\ x.sends = x.nResp
    /\ (x.nResp = 1 /\ x.first.status = 404) => x.sends = 1
    /\ (x.nResp >= 1 /\ IsOk(x.last.status)) =>
         /\ x.phase = "none"
         /\ x.out.kind = "ok"
         /\ x.sends = x.nResp

C9_Witness ==
  \E f \in DOMAIN fetch :
    fetch[f].first.status = 404 /\ fetch[f].out.kind = "err" /\ fetch[f].sends = 1

\* C10: a call whose first response is 429 with Retry-After d and whose second
\* response is 200 succeeds after exactly 2 requests, the second one sent no
\* earlier than d seconds after the first response.
C10_RetryAfterThenOk ==
  \A f \in DOMAIN fetch :
    LET x == fetch[f] IN
    (x.first.status = 429 /\ x.first.ra # <<>>) =>
      /\ x.nResp = 1 =>
           /\ x.phase \in {"sleeping", "queued", "inflight"} \/ x.out = NetErr
           /\ x.phase \in {"sleeping", "queued"} => x.sends = 1
           /\ x.phase = "inflight" =>
                x.sends = 2 /\ x.sinceResp >= x.first.ra[1] * 1000
      /\ (x.nResp = 2 /\ x.last.status = 200) =>
           x.out.kind = "ok" /\ x.sends = 2 /\ x.phase = "none"

C10_Witness ==
  \E f \in DOMAIN fetch :
    /\ fetch[f].first = [status |-> 429, ra |-> <<2>>]
    /\ fetch[f].nResp = 2
    /\ fetch[f].out.kind = "ok"

\* A text with nothing but blanks in it
IsBlank(text) == \A i \in 1 .. Len(text) : text[i] = " "

\* The inputs of record r's part of a form that want a text and have none
InvalidInputs(form, r) ==
  {<<"parts_other_text", r>> : x \in {y \in {"other"} : y \in form.checked /\ IsBlank(form.otherText)}}
  \cup {<<"parts_set_aside_text", r>> :
          x \in {y \in {"set_aside"} : y \in form.checked /\ IsBlank(form.setAsideText)}}

\* C11: a form with a flag selected and its text blank after trimming is
\* answered with errors keyed by exactly the invalid inputs, and no remote
\* call is made for the record, in the single-order and in the bulk handler:
\* whatever call or operation exists belongs to a form answered without errors.
C11_ValidationBeforeCalls ==
  /\ ack.single.sent => ack.single.errors = InvalidInputs(cfg.forms[cfg.single], 0)
  /\ ack.bulk.sent =>
       ack.bulk.errors = UNION {InvalidInputs(cfg.forms[cfg.orders[i]], cfg.orders[i]) :
                                  i \in 1 .. Len(cfg.orders)}
  /\ \A j \in JobIds :
       (FibersOf(j) # {} \/ ops[j] # <<>> \/ job[j].pc \notin {"off", "rejected"}) =>
         /\ IF j = 0 THEN ack.single.sent /\ ack.single.errors = {}
            ELSE ack.bulk.sent /\ ack.bulk.errors = {}
         /\ InvalidInputs(cfg.forms[job[j].rec], job[j].rec) = {}

C11_Witness ==
  /\ ack.bulk.sent
  /\ ack.bulk.errors # {}
  /\ Len(cfg.orders) >= 2
  /\ InvalidInputs(cfg.forms[1], 1) = {}

\* mfOps has been put together
Compiled == pure.pc \in {"compiled", "once", "twice", "read"}

\* The places of the operations on key in a list of operations
OpsFor(os, key) == {i \in 1 .. Len(os) : os[i].key = key}

OptionalKeys == {"parts_other", "parts_set_aside_already", "parts_suppliers"}

\* C12: for every form and every tag list, each optional field (parts_other,
\* parts_set_aside_already, parts_suppliers) gets exactly one operation, an
\* upsert or a delete, never both and never none.
C12_OneOpPerOptionalField ==
  Compiled =>
    \A k \in OptionalKeys :
      /\ Cardinality(OpsFor(pure.ops, k)) = 1
      /\ \A i \in OpsFor(pure.ops, k) : pure.ops[i].kind \in {"upsert", "delete"}

C12_Witness ==
  /\ Compiled
  /\ pure.handler = "bulk"
  /\ \E i \in OpsFor(pure.ops, "parts_other") : pure.ops[i].kind = "delete"
  /\ \E i \in OpsFor(pure.ops, "parts_suppliers") : pure.ops[i].kind = "upsert"

\* C13: the operations of one record in one reconciliation never hold two
\* operations on the same key, the arranged-with operations and the upserts
\* of the nc_incoming variants included.
C13_NoTwoOpsOnOneKey ==
  Compiled =>
    \A i, k \in 1 .. Len(pure.ops) : i # k => pure.ops[i].key # pure.ops[k].key

C13_Witness ==
  /\ Compiled
  /\ pure.handler = "bulk"
  /\ "nc_incoming" \in DOMAIN pure.rec.fields
  /\ OpsFor(pure.ops, "nc_incoming_old") # {}
  /\ OpsFor(pure.ops, "nc_incoming") # {}

\* val is raw without the blanks at its two ends, and is not empty
IsTrimOf(val, raw) ==
  /\ val # <<>>
  /\ val[1] # " "
  /\ val[Len(val)] # " "
  /\ \E a \in 0 .. Len(raw) :
       /\ a + Len(val) <= Len(raw)
       /\ SubSeq(raw, a + 1, a + Len(val)) = val
       /\ \A i \in 1 .. Len(raw) : (i <= a \/ i > a + Len(val)) => raw[i] = " "

\* The one operation on key is an upsert of the trimmed text when the text is
\* not blank, and a delete when it is
AnnotationOp(key, raw) ==
  \A i \in OpsFor(pure.ops, key) :
    IF IsBlank(raw) THEN pure.ops[i].kind = "delete"
    ELSE pure.ops[i].kind = "upsert" /\ IsTrimOf(pure.ops[i].val, raw)

\* C14: for each annotated flag the annotation field is upserted with exactly
\* the trimmed text if and only if the text is not empty after trimming, the
\* box being checked or not (a text makes the flag selected), and deleted
\* otherwise.
C14_AnnotationUpsertOrDelete ==
  Compiled =>
    /\ OpsFor(pure.ops, "parts_other") # {}
    /\ OpsFor(pure.ops, "parts_set_aside_already") # {}
    /\ AnnotationOp("parts_other", pure.form.otherText)
    /\ AnnotationOp("parts_set_aside_already", pure.form.setAsideText)

C14_Witness ==
  /\ Compiled
  /\ "other" \notin pure.form.checked
  /\ \E i \in OpsFor(pure.ops, "parts_other") :
       pure.ops[i].kind = "upsert" /\ pure.ops[i].val = <<"o", "p">>
  /\ \E i \in OpsFor(pure.ops, "parts_set_aside_already") : pure.ops[i].kind = "delete"

\* C15: the operations of a form carried out twice in a row on a blank record
\* leave the record as carrying them out once does.
C15_Idempotent ==
  (pure.pc = "twice" /\ pure.rec = BlankRecord) => pure.twice = pure.once

C15_Witness ==
  /\ pure.pc = "twice"
  /\ pure.rec = BlankRecord
  /\ pure.handler = "bulk"
  /\ "parts_other" \in DOMAIN pure.once.fields
  /\ pure.twice.nextId > 1

\* C16: for every valid form, the operations carried out on a blank record
\* and buildInitialsFromMetafields on the fields that result give back the
\* selected parts, the two texts, the fulfillment and the payment of the form.
C16_RoundTrip ==
  (pure.pc = "read" /\ pure.rec = BlankRecord) =>
    LET p == parseOne(pure.form) IN
    /\ pure.initials.useMeta
    /\ pure.initials.partsSelections = p.partsSelected
    /\ pure.initials.otherText = p.otherText
    /\ pure.initials.setAsideText = p.setAsideText
    /\ pure.initials.fulfillment = pure.form.fulfillment
    /\ pure.initials.payment = pure.form.payment

C16_Witness ==
  /\ pure.pc = "read"
  /\ pure.rec = BlankRecord
  /\ pure.initials.partsSelections = {"trim", "paddles", "other"}
  /\ pure.initials.otherText = <<"o", "p">>
  /\ pure.initials.payment = "pif_prepaid_install"
  /\ pure.initials.fulfillment = "tbd"

\* The marker of the record reads yes, whatever the case and the blanks around
MarkerSaysYes(rec) ==
  /\ "initial_slack_tagging_done" \in DOMAIN rec.fields
  /\ SelectSeq(rec.fields["initial_slack_tagging_done"].val, LAMBDA w : w # " ")
       \in {<<"yes">>, <<"Yes">>, <<"YES">>}

\* C17: on a record whose marker initial_slack_tagging_done is absent or is
\* not yes, buildInitialsFromMetafields returns the defaults (steering wheel
\* only, ship, pif, no texts), whatever the other fields hold.
C17_DefaultsWithoutMarker ==
  (pure.pc = "found" /\ ~MarkerSaysYes(pure.rec)) =>
    pure.initials = [useMeta |-> FALSE, partsSelections |-> {"steering_wheel"},
                     fulfillment |-> "ship", payment |-> "pif",
                     otherText |-> <<>>, setAsideText |-> <<>>]

C17_Witness ==
  /\ pure.pc = "found"
  /\ pure.rec = StrayRecord
  /\ ~pure.initials.useMeta

\* The lines of a text
RECURSIVE Lines(_)
Lines(text) ==
  LET breaks == {i \in 1 .. Len(text) : text[i] = "\n"}
  IN IF breaks = {} THEN <<text>>
     ELSE LET i == CHOOSE x \in breaks : \A y \in breaks : x <= y
          IN <<SubSeq(text, 1, i - 1)>> \o Lines(SubSeq(text, i + 1, Len(text)))

\* The header of the summary for the choices of a form
ExpectedHeader(form) ==
  <<CASE form.fulfillment = "install_pickup" -> "INSTALL/PICKUP"
      [] form.fulfillment = "tbd" -> "TBD"
      [] OTHER -> "SHIP",
    " -- ",
    CASE form.payment = "deposit" -> "DEPOSIT"
      [] form.payment = "pif_prepaid_install" -> "PIF + PRE-PAID INSTALL"
      [] form.payment = "unpaid" -> "UNPAID"
      [] form.payment = "unknown" -> "UNKNOWN"
      [] OTHER -> "PIF">>

\* The parts a form selects, as the parts line names them: the labels of the
\* six parts, then the text of "other"
RECURSIVE ExpectedParts(_, _)
ExpectedParts(form, i) ==
  IF i > 6
  THEN IF IsBlank(form.otherText) THEN <<>>
       ELSE <<SelectSeq(form.otherText, LAMBDA w : w # " ")>>
  ELSE (IF PartOrder[i] \in form.checked THEN << <<PartLabel[PartOrder[i]]>> >> ELSE <<>>)
       \o ExpectedParts(form, i + 1)

RECURSIVE CommaJoined(_)
CommaJoined(list) ==
  IF Len(list) = 1 THEN list[1] ELSE list[1] \o <<", ">> \o CommaJoined(Tail(list))

\* C18: packing_slip_notes is always upserted with the multi-line type hint;
\* its lines are the header of the uppercased fulfillment and payment labels
\* joined by the dash, a blank line, the parts line ("<Label> only" for one
\* part, the labels joined by ", " for two or more) and, exactly when there is
\* a set-aside text, one more blank line and the set-aside note.
C18_PackingSlipNotes ==
  Compiled =>
    /\ Cardinality(OpsFor(pure.ops, "packing_slip_notes")) = 1
    /\ \A i \in OpsFor(pure.ops, "packing_slip_notes") :
         LET o == pure.ops[i]
             ls == Lines(o.val)
             parts == ExpectedParts(pure.form, 1)
         IN /\ o.kind = "upsert"
            /\ o.hint = "multi_line_text_field"
            /\ Len(ls) = IF IsBlank(pure.form.setAsideText) THEN 3 ELSE 5
            /\ ls[1] = ExpectedHeader(pure.form)
            /\ ls[2] = <<>>
            /\ Len(parts) = 1 => ls[3] = parts[1] \o <<" only">>
            /\ Len(parts) >= 2 => ls[3] = CommaJoined(parts)
            /\ Len(ls) = 5 =>
                 /\ ls[4] = <<>>
                 /\ ls[5] = <<"Should Be Set Aside Already: ">>
                             \o SelectSeq(pure.form.setAsideText, LAMBDA w : w # " ")

C18_Witness ==
  /\ Compiled
  /\ pure.form.checked = {"trim"}
  /\ \E i \in OpsFor(pure.ops, "packing_slip_notes") :
       pure.ops[i].val = <<"TBD", " -- ", "DEPOSIT", "\n", "\n", "Trim", " only", "\n", "\n",
                           "Should Be Set Aside Already: ", "o", "p">>

\* C19: no failure of a remote call of a reconciliation escapes the runner:
\* every rejection of an operation started for a record is caught at the
\* record's boundary and shows as the record's failed result.
C19_NoRejectionEscapes ==
  (run.started /\ cfg.single = 0) =>
    /\ ~hist.unhandled
    /\ run.returned =>
         \A j \in BulkJobs :
           (\E i \in 1 .. Len(ops[j]) : ops[j][i].st = "err") => ~run.results[j].ok

\* C20: the upsert of the marker initial_slack_tagging_done = "Yes" is the
\* last of the operations of a record, after every other upsert and delete.
C20_MarkerLast ==
  Compiled =>
    /\ pure.ops # <<>>
    /\ pure.ops[Len(pure.ops)] = Upsert("initial_slack_tagging_done", <<"Yes">>)

\* The list without the later occurrences of its entries
RECURSIVE Dedup(_)
Dedup(list) ==
  IF list = <<>> THEN <<>>
  ELSE LET front == Dedup(SubSeq(list, 1, Len(list) - 1))
           x == list[Len(list)]
       IN IF \E i \in 1 .. Len(front) : front[i] = x THEN front ELSE Append(front, x)

\* C21: the value written to parts_suppliers is the list of the tags that
\* start with 'PartsSupplier_', with the prefix stripped and duplicates
\* removed, joined by ', '; the field is upserted when the list is not empty
\* and deleted otherwise.
C21_SuppliersDeduplicated ==
  Compiled =>
    \A i \in OpsFor(pure.ops, "parts_suppliers") :
      LET names == Dedup(SelectSeq([k \in 1 .. Len(pure.tags) |-> SupplierOf(pure.tags[k])],
                                   LAMBDA n : n # <<>>))
      IN IF names = <<>> THEN pure.ops[i].kind = "delete"
         ELSE pure.ops[i].kind = "upsert" /\ pure.ops[i].val = CommaJoined(names)

\* C28: each of the six part fields is upserted exactly once, with its label
\* when the part is selected and with 'No <Label>' otherwise; fulfillment,
\* payment, who_contacts and the marker are each upserted exactly once; none
\* of these fields is the target of a delete.
C28_AlwaysWrittenFields ==
  Compiled =>
    /\ \A n \in PartNames :
         /\ Cardinality(OpsFor(pure.ops, PartKey[n])) = 1
         /\ \A i \in OpsFor(pure.ops, PartKey[n]) :
              /\ pure.ops[i].kind = "upsert"
              /\ pure.ops[i].val = IF n \in pure.form.checked THEN <<PartLabel[n]>>
                                   ELSE <<"No", PartLabel[n]>>
    /\ \A k \in {"ship_install_pickup", "pif_or_not", "who_contacts",
                 "initial_slack_tagging_done"} :
         /\ Cardinality(OpsFor(pure.ops, k)) = 1
         /\ \A i \in OpsFor(pure.ops, k) : pure.ops[i].kind = "upsert"

C28_Witness ==
  /\ Compiled
  /\ pure.handler = "single"
  /\ pure.form.checked = {"trim", "other"}
  /\ \E i \in OpsFor(pure.ops, "parts_trim") : pure.ops[i].val = <<"Trim">>
  /\ \E i \in OpsFor(pure.ops, "parts_paddles") : pure.ops[i].val = <<"No", "Paddles">>

\* C29: after a successful bulk reconciliation of a record, nc_incoming
\* equals 'INCOMING' and so does every other field of the record whose key
\* contains 'nc_incoming' and that the record held before.
C29_IncomingEverywhere ==
  \A j \in BulkJobs :
    job[j].pc = "done" =>
      LET before == InitialRecord(cfg, job[j].rec).fields
          now == remote[job[j].rec].fields
      IN /\ "nc_incoming" \in DOMAIN now
         /\ now["nc_incoming"].val = <<"INCOMING">>
         /\ \A k \in DOMAIN before \cap IncomingKeys :
              k \in DOMAIN now /\ now[k].val = <<"INCOMING">>

C29_Witness ==
  \E j \in BulkJobs :
    /\ job[j].pc = "done"
    /\ "nc_incoming_old" \in DOMAIN InitialRecord(cfg, job[j].rec).fields
    /\ InitialRecord(cfg, job[j].rec).fields["nc_incoming_old"].val # <<"INCOMING">>
    /\ "nc_incoming" \notin DOMAIN InitialRecord(cfg, job[j].rec).fields
    /\ remote[job[j].rec].fields["nc_incoming_old"].val = <<"INCOMING">>

RECURSIVE SemicolonJoined(_)
SemicolonJoined(list) ==
  IF list = <<>> THEN <<>>
  ELSE IF Len(list) = 1 THEN list[1]
  ELSE list[1] \o <<"; ">> \o SemicolonJoined(Tail(list))

\* The invoice log a record should hold: what it held at first, then the
\* label of every bulk reconciliation carried out since, in order
ExpectedInvoiceLog ==
  LET held == IF "_back_end_incoming_invoice" \in DOMAIN pure.first.fields
              THEN << pure.first.fields["_back_end_incoming_invoice"].val >> ELSE <<>>
      labels == [i \in 1 .. Len(pure.log) |->
                   <<pure.log[i], " ", cfg.invoiceDate, " ", "Invoice">>]
  IN SemicolonJoined(held \o labels)

\* C30: a bulk reconciliation writes _back_end_incoming_invoice to the label
\* '<supplier> <date> Invoice' when the field was empty or absent and to
\* '<previous value>; <label>' otherwise, so after any sequence of successful
\* reconciliations the field lists every label in order, none lost.
C30_InvoiceLogAppended ==
  (pure.pc \in {"once", "twice", "read"} /\ pure.handler = "bulk") =>
    /\ "_back_end_incoming_invoice" \in DOMAIN pure.once.fields
    /\ pure.once.fields["_back_end_incoming_invoice"].val = ExpectedInvoiceLog

C30_Witness ==
  /\ pure.pc = "once"
  /\ pure.handler = "bulk"
  /\ pure.first = MarkedRecord
  /\ pure.log = <<"A", "C">>
  /\ pure.once.fields["_back_end_incoming_invoice"].val =
       <<"B", " ", "10/01", " ", "Invoice", "; ", "A", " ", "11/02", " ", "Invoice", "; ",
         "C", " ", "11/02", " ", "Invoice">>

\* C22: upsertOrderMetafield on a record nothing else changes: if a field
\* with the key exists it sends one update that carries the value and no
\* type, and creates nothing; otherwise it creates one field with the type
\* hint, or the single-line type without a hint.  Afterwards exactly one
\* field with the key exists, it holds the value, and every other field of
\* the record is as it was.
C22_UpsertUpdatesOrCreates ==
  pure.pc = "upserted" =>
    LET key == pure.op.key
        old == pure.rec.fields
        new == pure.after.fields
    IN /\ Len(pure.reqs) = 2
       /\ pure.reqs[1].method = "GET"
       /\ IF key \in DOMAIN old
          THEN /\ pure.reqs[2].method = "PUT"
               /\ pure.reqs[2].id = old[key].id
               /\ pure.reqs[2].type = ""
               /\ pure.reqs[2].val = pure.op.val
               /\ DOMAIN new = DOMAIN old
               /\ pure.after.nextId = pure.rec.nextId
               /\ new[key].type = old[key].type
               /\ new[key].id = old[key].id
          ELSE /\ pure.reqs[2].method = "POST"
               /\ pure.reqs[2].key = key
               /\ pure.reqs[2].type = (IF pure.op.hint # "" THEN pure.op.hint
                                       ELSE "single_line_text_field")
               /\ DOMAIN new = DOMAIN old \cup {key}
               /\ new[key].type = pure.reqs[2].type
       /\ new[key].val = pure.op.val
       /\ Cardinality({k \in DOMAIN new : new[k].id = new[key].id}) = 1
       /\ \A k \in DOMAIN old \ {key} : new[k] = old[k]

C22_Witness ==
  /\ pure.pc = "upserted"
  /\ pure.op.key \in DOMAIN pure.rec.fields
  /\ pure.op.hint = "multi_line_text_field"
  /\ pure.after.fields[pure.op.key].type = "single_line_text_field"
  /\ pure.after.fields[pure.op.key].val # pure.rec.fields[pure.op.key].val
  /\ Cardinality(DOMAIN pure.rec.fields) >= 2

\* C23: deleteOrderMetafield sends a delete request only when a field with
\* the key is among the listed fields; when it is absent no mutating request
\* is sent and the fields of the record are unchanged; when it is present
\* only that field is removed.
C23_DeleteOnlyIfPresent ==
  pure.pc = "deleted" =>
    LET key == pure.op.key
        old == pure.rec.fields
        new == pure.after.fields
    IN /\ pure.reqs[1].method = "GET"
       /\ IF key \in DOMAIN old
          THEN /\ Len(pure.reqs) = 2
               /\ pure.reqs[2].method = "DELETE"
               /\ pure.reqs[2].id = old[key].id
               /\ DOMAIN new = DOMAIN old \ {key}
          ELSE /\ Len(pure.reqs) = 1
               /\ DOMAIN new = DOMAIN old
       /\ \A k \in DOMAIN new : new[k] = old[k]

C23_Witness ==
  /\ pure.pc = "deleted"
  /\ pure.op.key = "parts_trim"
  /\ pure.rec = ForeignRecord
  /\ pure.after = pure.rec
  /\ Len(pure.reqs) = 1

\* The candidates of the answer to the search for digits whose name is
\* exactly 'C#' followed by digits
ExactMatches(digits, n) ==
  LET data == SearchResult(digits, n)
  IN {data.orders[i].id : i \in {x \in 1 .. Len(data.orders) :
                                   /\ data.orders[x].isString
                                   /\ Len(data.orders[x].name) = 2
                                   /\ data.orders[x].name[1] = "C#"
                                   /\ data.orders[x].name[2] = digits}}

\* C24: findOrderByName returns a record only if a candidate of the search
\* has a name exactly equal to 'C#' followed by the digits asked for; on every
\* other search result it fails with 'Order C#<digits> not found'; in the
\* collecting handler such a failure puts the code in the not-found list and
\* the lookup of the remaining codes goes on.
C24_ExactMatchLookup ==
  pure.pc = "lookup" =>
    /\ Len(pure.found) + Len(pure.failed) = pure.i - 1
    /\ Len(pure.logged) = Len(pure.failed)
    /\ \A k \in 1 .. pure.i - 1 :
         LET digits == pure.codes[k]
             n == pure.search[digits]
             hits == ExactMatches(digits, n)
             isFound == \E x \in 1 .. Len(pure.found) :
                          pure.found[x].digits = digits /\ pure.found[x].id \in hits
             x == CHOOSE x \in 1 .. Len(pure.failed) : pure.failed[x] = digits
         IN IF hits # {} /\ SearchResult(digits, n).ok
            THEN isFound /\ \A y \in 1 .. Len(pure.failed) : pure.failed[y] # digits
            ELSE /\ \A y \in 1 .. Len(pure.found) : pure.found[y].digits # digits
                 /\ \E y \in 1 .. Len(pure.failed) : pure.failed[y] = digits
                 /\ SearchResult(digits, n).ok =>
                      pure.logged[x] = <<"Order ", "C#", digits, " not found">>

C24_Witness ==
  /\ pure.pc = "lookup"
  /\ pure.i = 3
  /\ pure.search[pure.codes[1]] = 3
  /\ pure.search[pure.codes[2]] = 4
  /\ pure.failed = <<pure.codes[1]>>
  /\ Len(pure.found) = 1
  /\ pure.found[1].digits = pure.codes[2]

\* A step of the users: a caller calls the transport, a form is submitted
UserStep ==
  \/ \E c \in Callers : caller[c] = "idle" /\ caller'[c] # "idle"
  \/ ~run.started /\ run.started'
  \/ job[0].pc = "off" /\ job'[0].pc # "off"

\* Nothing goes on any more unless a user acts: the process has ended, or no
\* request is under way, no timer is due or running, no snapshot is being
\* written (the guards of Respond, NetworkError, Wake, Release, Snapshot and
\* TickStep)
AtRest ==
  \/ crashed
  \/ /\ InFlight = {}
     /\ ~TimerDue
     /\ \A j \in JobIds : job[j].pc # "snapshot"
     /\ Advance(S) = S

\* What is left to happen without the users, as a number that every step
\* other than a user's makes smaller.  Events: a request under way or waiting
\* at the gate has its response and the release after it to come, a sleeping
\* one its wake-up too; an operation that is listing may send one more
\* request; a worker has the requests and the operations of its remaining
\* stages to come; every retryable response the remote side may still send
\* brings one more round.  Clocks: the ticks the timers and the stopwatches
\* have left.
Ticks(ms) == (ms + Tick - 1) \div Tick

StagesLeft(pc) ==
  CASE pc = "off" -> 11 [] pc = "mfmap" -> 10 [] pc = "tags0" -> 9 [] pc = "loop" -> 8
    [] pc = "tagsRm" -> 7 [] pc = "tagsRmPut" -> 6 [] pc = "tagsInc" -> 5
    [] pc = "tagsIncPut" -> 4 [] pc = "noteGet" -> 3 [] pc = "notePut" -> 2
    [] pc = "snapshot" -> 1 [] OTHER -> 0

FetchClocks(f) ==
  Ticks(fetch[f].timer)
  + (IF fetch[f].phase \in {"sleeping", "queued"}
     THEN Ticks(Max(0, ServerDelay(fetch[f].last) - fetch[f].sinceResp)) ELSE 0)

\* No timer and no delay a server asks for is longer than the backoff cap
MaxClocks == 2 * Ticks(BackoffCapMs)

EventsLeft ==
  3 * Cardinality({f \in DOMAIN fetch : fetch[f].phase = "sleeping"})
  + 2 * Cardinality({f \in DOMAIN fetch : fetch[f].phase \in {"queued", "inflight"}})
  + 3 * Cardinality(UNION {{<<j, i>> : i \in {k \in 1 .. Len(ops[j]) : ops[j][k].st = "listing"}} :
                             j \in JobIds})
  + 100 * Cardinality({<<j, k>> \in JobIds \X (1 .. StagesLeft("off")) :
                         k <= StagesLeft(job[j].pc)})
  + (IF gate.st = "gap" THEN 1 ELSE 0) + 3 * budget.retry

\* The sum of the clocks of the requests, as the number of pairs <<f, k>>
\* with k no more than the clock of f
ClocksLeft ==
  Cardinality({<<f, k>> \in {g \in DOMAIN fetch : FetchClocks(g) > 0} \X (1 .. MaxClocks) :
                 k <= FetchClocks(f)})
  + Ticks(gate.timer)
  + Ticks(SHOPIFY_MIN_GAP_MS - hist.sinceFinish)
  + Ticks((SpanN - 1) * SHOPIFY_MIN_GAP_MS - hist.span)

Rank == 10000 * EventsLeft + ClocksLeft

C26_Termination ==
  AtRest =>
    /\ \A c \in Callers : caller[c] # "fetching"
    /\ \A f \in DOMAIN fetch : fetch[f].phase = "none"
    /\ (run.started /\ ack.bulk.errors = {}) =>
         /\ run.returned
         /\ DOMAIN run.results = BulkJobs
         /\ \A j \in BulkJobs : job[j].pc \in {"done", "failed"}

\* C27: before a retry the transport waits the Retry-After delay of the
\* response (seconds turned into milliseconds) when the header is there, and
\* min(2000 ms x attempt, 10000 ms) otherwise, attempt being the number of the
\* attempt that just failed, from 1; without a header the delay never
\* decreases with the attempt and never exceeds 10000 ms.
C27_RetryDelay ==
  /\ [][\A f \in DOMAIN fetch :
          (fetch[f].phase = "inflight" /\ f \in DOMAIN fetch'
             /\ fetch'[f].phase = "sleeping") =>
            LET resp == fetch'[f].last
                attempt == fetch[f].attempt
            IN /\ fetch'[f].attempt = attempt
               /\ fetch'[f].timer =
                    IF resp.ra # <<>> THEN resp.ra[1] * 1000
                    ELSE IF 2000 * attempt < 10000 THEN 2000 * attempt ELSE 10000]_vars
  /\ [](\A f \in DOMAIN fetch :
          (fetch[f].phase = "sleeping" /\ fetch[f].last.ra = <<>>) =>
            /\ fetch[f].timer <= 10000
            /\ fetch[f].timer <= 2000 * fetch[f].attempt)

C27_Witness ==
  \E f \in DOMAIN fetch :
    /\ fetch[f].phase = "sleeping"
    /\ fetch[f].attempt = 3
    /\ fetch[f].first.ra = <<2>>
    /\ fetch[f].last.ra = <<>>
    /\ fetch[f].timer = 6000

\* The tag list of the record of job j before the run and now
TagsBefore(j) == fetchOrderTags(InitialRecord(cfg, job[j].rec).tags)
TagsNow(j) == fetchOrderTags(remote[job[j].rec].tags)

Without(list, set) == SelectSeq(list, LAMBDA x : x \notin set)

CountOf(list, x) == Cardinality({i \in 1 .. Len(list) : list[i] = x})

\* C31: after a successful bulk reconciliation the tag list of the record holds
\* 'Incoming_Yes' exactly once if it held it at most once before; the tag is
\* added only when it is missing, the tags are not rewritten when it is there
\* (and no other tag is to be removed), and every tag other than
\* 'Incoming_Yes' and 'ArrangeStatus_Arranged' is left as it was, in the same
\* order.
C31_IncomingTagOnce ==
  /\ [](\A j \in BulkJobs :
          job[j].pc = "done" =>
            /\ CountOf(TagsBefore(j), "Incoming_Yes") <= 1 =>
                 CountOf(TagsNow(j), "Incoming_Yes") = 1
            /\ Without(TagsNow(j), {"Incoming_Yes", "ArrangeStatus_Arranged"})
                 = Without(TagsBefore(j), {"Incoming_Yes", "ArrangeStatus_Arranged"})
            /\ (CountOf(TagsBefore(j), "Incoming_Yes") > 0 /\ job[j].arrange = "leave") =>
                 remote[job[j].rec].tags = InitialRecord(cfg, job[j].rec).tags)
  /\ [][\A j \in BulkJobs :
          (job[j].pc = "tagsInc" /\ job'[j].pc = "tagsIncPut") =>
            /\ CountOf(TagsNow(j), "Incoming_Yes") = 0
            /\ job'[j].pend = TagsNow(j) \o <<"Incoming_Yes">>]_vars

C31_Witness ==
  \E j \in BulkJobs :
    /\ job[j].pc = "done"
    /\ CountOf(TagsBefore(j), "Incoming_Yes") = 0
    /\ CountOf(TagsNow(j), "Incoming_Yes") = 1
    /\ TagsBefore(j) = <<"ArrangeStatus_Arranged", "PartsSupplier_A">>
    /\ TagsNow(j) = <<"PartsSupplier_A", "Incoming_Yes">>

\* The suppliers named by an arranged-with value, and the value that names the
\* suppliers left once the supplier of the invoice is taken out
SuppliersNamed(text) == SelectSeq(text, LAMBDA x : x \notin {"&", " "})

RemainingSuppliers(text) ==
  LET left == SelectSeq(SuppliersNamed(text), LAMBDA x : x # cfg.invoiceSupplier)
  IN [i \in 1 .. (IF left = <<>> THEN 0 ELSE 4 * Len(left) - 3) |->
        IF i % 4 = 1 THEN left[(i + 3) \div 4]
        ELSE IF i % 4 = 3 THEN "&" ELSE " "]

ArrangedWithAtFirst(r) ==
  IF "_nc_arranged_with" \in DOMAIN InitialRecord(cfg, r).fields
  THEN InitialRecord(cfg, r).fields["_nc_arranged_with"].val ELSE <<>>

FieldGone(r, k) ==
  k \in DOMAIN InitialRecord(cfg, r).fields /\ k \notin DOMAIN remote[r].fields

ArrangedTagGone(r) ==
  CountOf(fetchOrderTags(remote[r].tags), "ArrangeStatus_Arranged")
    < CountOf(fetchOrderTags(InitialRecord(cfg, r).tags), "ArrangeStatus_Arranged")

\* C32: when custom._nc_arranged_with of a record names several suppliers
\* joined by '&', a reconciliation never deletes custom.arrange_status or
\* custom._nc_arranged_with and never removes the 'ArrangeStatus_Arranged'
\* tag; it only rewrites _nc_arranged_with to the remaining suppliers joined
\* by ' & ', and only when that value is non-empty and differs from the
\* current one. The fields are deleted and the tag removed only when the
\* current value is non-empty and names a single supplier.
C32_MultiSupplierNarrowed ==
  \A r \in Records :
    LET first == ArrangedWithAtFirst(r)
        several == \E i \in 1 .. Len(first) : first[i] = "&"
        gone == FieldGone(r, "arrange_status") \/ FieldGone(r, "_nc_arranged_with")
                  \/ ArrangedTagGone(r)
    IN /\ several =>
            /\ ~gone
            /\ remote[r].fields["_nc_arranged_with"].val # first =>
                 /\ remote[r].fields["_nc_arranged_with"].val = RemainingSuppliers(first)
                 /\ RemainingSuppliers(first) # <<>>
                 /\ RemainingSuppliers(first) # Trim(first)
            /\ (\E j \in BulkJobs : job[j].rec = r /\ job[j].pc = "done") =>
                 remote[r].fields["_nc_arranged_with"].val =
                   IF RemainingSuppliers(first) # <<>> /\ RemainingSuppliers(first) # Trim(first)
                   THEN RemainingSuppliers(first) ELSE first
       /\ gone => (Trim(first) # <<>> /\ Len(SuppliersNamed(first)) = 1 /\ ~several)

C32_Witness ==
  \E j \in BulkJobs :
    /\ job[j].pc = "done"
    /\ ArrangedWithAtFirst(job[j].rec) = <<"A", " ", "&", " ", "B">>
    /\ cfg.invoiceSupplier = "A"
    /\ remote[job[j].rec].fields["_nc_arranged_with"].val = <<"B">>
    /\ remote[job[j].rec].fields["arrange_status"].val = <<"Arranged">>
    /\ CountOf(TagsNow(j), "ArrangeStatus_Arranged") = 1

\* The last n tokens of a text
TailOf(text, n) == SubSeq(text, Len(text) - n + 1, Len(text))

\* The header a reconciliation of this run writes
HeaderOfThisRun ==
  <<"Update", " ", "1", "1", "/", "0", "2", "/", "2", "0", "2", "6", ":", " ",
    "Invoiced", " ", "with", " ", cfg.invoiceSupplier, " ", cfg.invoiceDate, " ", "Invoice">>

\* The positions of a note where a header begins
HeaderStarts(note) == {i \in 1 .. Len(note) : note[i] = "Update"}

\* C33: a successful bulk reconciliation rewrites the note of the record to
\* the dated header line, a separator line and then the complete previous
\* note: every write of a note keeps the note that was there as its tail, and
\* after the reconciliation the note is the new header, the separator and the
\* note the record had, so that the headers stand newest first.
C33_NotePrepended ==
  /\ [](\A j \in BulkJobs :
          LET now == remote[job[j].rec].note
              first == InitialRecord(cfg, job[j].rec).note
              h == Len(HeaderOfThisRun)
          IN /\ now # first =>
                  /\ Len(now) = h + 3 + Len(first)
                  /\ SubSeq(now, 1, h) = HeaderOfThisRun
                  /\ SubSeq(now, h + 1, h + 3) = <<"\n", dashLine, "\n">>
                  /\ TailOf(now, Len(first)) = first
             /\ job[j].pc = "done" => now # first)
  /\ [][\A r \in Records :
          remote'[r].note # remote[r].note =>
            /\ Len(remote'[r].note) > Len(remote[r].note)
            /\ TailOf(remote'[r].note, Len(remote[r].note)) = remote[r].note
            /\ Cardinality(HeaderStarts(remote'[r].note))
                 = Cardinality(HeaderStarts(remote[r].note)) + 1
            /\ 1 \in HeaderStarts(remote'[r].note)]_vars

C33_Witness ==
  \E j \in BulkJobs :
    /\ job[j].pc = "done"
    /\ Cardinality(HeaderStarts(InitialRecord(cfg, job[j].rec).note)) = 1
    /\ TailOf(InitialRecord(cfg, job[j].rec).note, 3) = <<"n1", "\n", "n2">>
    /\ Cardinality(HeaderStarts(remote[job[j].rec].note)) = 2
    /\ SubSeq(remote[job[j].rec].note, 3, 7) = <<"1", "1", "/", "0", "2">>
    /\ \E i \in HeaderStarts(remote[job[j].rec].note) :
         i > 1 /\ SubSeq(remote[job[j].rec].note, i + 2, i + 6) = <<"1", "0", "/", "3", "0">>
    /\ TailOf(remote[job[j].rec].note, Len(InitialRecord(cfg, job[j].rec).note))
         = InitialRecord(cfg, job[j].rec).note

\* Every remote step of the reconciliation j has completed successfully: the
\* field operations, no call of its own under way, and for the bulk worker
\* the tag updates and the note update
RemoteStepsDone(j) ==
  /\ ops[j] # <<>>
  /\ \A i \in 1 .. Len(ops[j]) : ops[j][i].st = "ok"
  /\ \A f \in DOMAIN fetch : (f[1] # "caller" /\ f[2] = j) => fetch[f].phase = "none"
  /\ job[j].kind = "bulk" =>
       /\ CountOf(TagsNow(j), "Incoming_Yes") >= 1
       /\ job[j].arrange = "remove" => CountOf(TagsNow(j), "ArrangeStatus_Arranged") = 0
       /\ remote[job[j].rec].note # InitialRecord(cfg, job[j].rec).note

\* C34: the local snapshot of a record is written only after every remote
\* step of its reconciliation has completed successfully; a reconciliation
\* that failed writes no snapshot, and a record is reported as succeeded only
\* after its snapshot was written.
C34_SnapshotLast ==
  /\ [](\A j \in JobIds : job[j].pc \in {"snapshot", "done"} => RemoteStepsDone(j))
  /\ [](\A j \in BulkJobs : run.results[j].ok => job[j].pc = "done")
  /\ [][\A j \in JobIds :
          /\ job[j].pc = "failed" => job'[j].pc = "failed"
          /\ (job'[j].pc = "done" /\ job[j].pc # "done") => job[j].pc = "snapshot"
          /\ (job'[j].pc = "snapshot" /\ job[j].pc # "snapshot") =>
               \A i \in 1 .. Len(ops[j]) : ops'[j][i].st = "ok"]_vars

C34_Witness ==
  \E j, k \in BulkJobs :
    /\ job[j].pc = "done" /\ run.results[j].ok
    /\ job[k].pc = "failed" /\ ~run.results[k].ok /\ run.results[k].error.kind # "fs"
    /\ \E i \in 1 .. Len(ops[k]) : ops[k][i].st = "err"
    /\ run.returned

\* The invocations of the worker that have begun and not ended
Unfinished == {j \in BulkJobs : job[j].pc \notin {"off", "done", "failed"}}

\* C35: runWithConcurrency(max, items, worker) with max >= 1 starts exactly
\* min(max, |items|) runners; every index is claimed once, in turn, and the
\* worker is invoked exactly once per item; at most max invocations are
\* unfinished at any moment; the call returns only after every invocation
\* has finished.
C35_RunWithConcurrency ==
  /\ [](/\ Cardinality(Unfinished) = run.live
        /\ run.live <= Min(cfg.max, Len(cfg.orders))
        /\ Cardinality(Unfinished) <= cfg.max
        /\ \A j \in BulkJobs : job[j].pc # "off" <=> (run.started /\ j < run.next)
        /\ run.returned =>
             /\ run.live = 0
             /\ \A j \in BulkJobs : job[j].pc \in {"done", "failed"})
  /\ [][/\ (~run.started /\ run'.started /\ ack'.bulk.errors = {}) =>
             /\ run'.live = Min(cfg.max, Len(cfg.orders))
             /\ Unfinished' = 1 .. Min(cfg.max, Len(cfg.orders))
        /\ \A j \in BulkJobs :
             /\ job[j].pc # "off" => job'[j].pc \notin {"off", "mfmap"} \/ job'[j].pc = job[j].pc
             /\ (job[j].pc = "off" /\ job'[j].pc # "off") =>
                  /\ job'[j].pc = "mfmap"
                  /\ run.next <= j /\ j < run'.next
                  /\ \A k \in BulkJobs : k < j => job'[k].pc # "off"]_vars

C35_Witness ==
  /\ cfg.max = 1
  /\ Len(cfg.orders) = 2
  /\ run.live = 1
  /\ Unfinished = {2}
  /\ job[1].pc \in {"done", "failed"}
  /\ ~run.returned

\* A value of the listing as a text, and what a listed field contributes
ShownText(x) ==
  CASE x.t = "str" -> Trim(x.s)
    [] x.t = "num" -> IF x.n = 0 THEN <<"0">> ELSE Digits(x.n)
    [] OTHER -> <<>>

CompositeKey(mf) == ShownText(mf.namespace) \o <<".">> \o ShownText(mf.key)

\* C36: fetchOrderMetafields returns a map with an entry '<namespace>.<key>'
\* holding the trimmed value for every listed field whose trimmed namespace
\* and trimmed key are both non-empty, with no entry for a field whose
\* namespace or key is empty; when two fields give the same composite key the
\* map holds the value of the one listed last.
C36_FieldMapOfListing ==
  pure.pc = "listed" =>
    LET l == pure.metafields
        kept == {i \in 1 .. Len(l) :
                   ShownText(l[i].namespace) # <<>> /\ ShownText(l[i].key) # <<>>}
    IN /\ DOMAIN pure.out = {CompositeKey(l[i]) : i \in kept}
       /\ \A i \in kept :
            (\A k \in kept : CompositeKey(l[k]) = CompositeKey(l[i]) => k <= i) =>
              pure.out[CompositeKey(l[i])] = ShownText(l[i].value)
       /\ \A i \in (1 .. Len(l)) \ kept : CompositeKey(l[i]) \notin DOMAIN pure.out

C36_Witness ==
  /\ pure.pc = "listed"
  /\ Len(pure.metafields) = 2
  /\ pure.metafields[1] = [namespace |-> Str(<<"custom">>), key |-> Str(<<"k", " ">>),
                           value |-> Str(<<"v">>)]
  /\ pure.metafields[2] = [namespace |-> Str(<<" ", "custom">>), key |-> Str(<<"k">>),
                           value |-> Num(0)]
  /\ DOMAIN pure.out = {<<"custom", ".", "k">>}
  /\ pure.out[<<"custom", ".", "k">>] = <<"0">>

\* The field k of the map handed to the extractor, without the blanks around it
MapField(k) == IF k \in DOMAIN pure.mfMap THEN Trim(pure.mfMap[k]) ELSE <<>>

MarkerPresent == MapField("initial_slack_tagging_done") \in {<<"yes">>, <<"Yes">>, <<"YES">>}

\* C37: buildInitialsFromMetafields returns, for every map, exactly one
\* fulfillment of {ship, install_pickup, tbd} and exactly one payment of
\* {pif, deposit, pif_prepaid_install, unpaid, unknown}; with the completion
\* marker present a blank fulfillment field gives ship, a blank payment field
\* gives unknown, an unrecognised fulfillment or payment gives ship and pif,
\* and 'other' / 'set_aside' is selected exactly when its annotation field is
\* non-empty.
C37_InitialsTotal ==
  pure.pc = "initials" =>
    LET r == pure.initials
        f == MapField("ship_install_pickup")
        p == MapField("pif_or_not")
    IN /\ DOMAIN r = {"useMeta", "partsSelections", "fulfillment", "payment",
                      "otherText", "setAsideText"}
       /\ r.fulfillment \in {"ship", "install_pickup", "tbd"}
       /\ r.payment \in {"pif", "deposit", "pif_prepaid_install", "unpaid", "unknown"}
       /\ r.partsSelections \subseteq AllFlags
       /\ MarkerPresent =>
            /\ r.useMeta
            /\ f = <<>> => r.fulfillment = "ship"
            /\ p = <<>> => r.payment = "unknown"
            /\ f \notin {<<>>, <<"Ship">>, <<"Install/Pickup">>, <<"TBD">>} =>
                 r.fulfillment = "ship"
            /\ p \notin {<<>>, <<"PIF">>, <<"Deposit">>, <<"PIF + Pre-Paid Install">>,
                         <<"Unpaid">>, <<"Unknown">>} => r.payment = "pif"
            /\ "other" \in r.partsSelections <=> MapField("parts_other") # <<>>
            /\ "set_aside" \in r.partsSelections <=> MapField("parts_set_aside_already") # <<>>

C37_Witness ==
  /\ pure.pc = "initials"
  /\ MarkerPresent
  /\ DOMAIN pure.mfMap = {"initial_slack_tagging_done", "ship_install_pickup", "pif_or_not",
                          "parts_other", "parts_set_aside_already"}
  /\ pure.mfMap["initial_slack_tagging_done"] = <<" ", "YES", " ">>
  /\ pure.mfMap["ship_install_pickup"] = <<"tbd">>
  /\ pure.mfMap["pif_or_not"] = <<" ">>
  /\ pure.mfMap["parts_other"] = <<" ">>
  /\ pure.mfMap["parts_set_aside_already"] = <<"s", " ">>
  /\ pure.initials.fulfillment = "ship"
  /\ pure.initials.payment = "unknown"
  /\ pure.initials.partsSelections = {"set_aside"}

\* The operations of reconciliation j that write the completion marker
MarkerOps(j) == {i \in 1 .. Len(ops[j]) : ops[j][i].key = "initial_slack_tagging_done"}

\* C38: when the reconciliation of a record fails at some field operation,
\* the completion marker is not set to 'Yes' by that run: the marker is
\* written on the remote record only after every other field upsert and
\* delete of the same reconciliation has succeeded.
C38_MarkerOnlyAfterSuccess ==
  \A j \in JobIds : \A i \in MarkerOps(j) :
    ops[j][i].st = "ok" =>
      /\ job[j].pc # "failed"
      /\ \A k \in 1 .. Len(ops[j]) : ops[j][k].st # "err"

\* The requests that start in this step
Admitted ==
  {f \in DOMAIN fetch' :
     /\ fetch'[f].phase = "inflight"
     /\ f \notin DOMAIN fetch \/ fetch[f].phase # "inflight"}

\* What is left of the queue once the requests that started have gone
QueueLeft == SelectSeq(gateQ, LAMBDA f : f \notin Admitted)

\* C39: the gate admits the requests in the order of their calls to
\* __withShopifyThrottle: of the requests that wait, the one that entered
\* first starts first, and none starts past a request that waits; a request
\* that is retried takes its place at the back of the queue; the gate is not
\* held during the backoff sleep of a retry, so that other requests are
\* admitted meanwhile.
C39_GateFifo ==
  /\ [][/\ \A f \in Admitted :
             IF gateQ = <<>> THEN gate.st = "open" ELSE f = Head(gateQ)
        /\ Len(gateQ') >= Len(QueueLeft)
        /\ SubSeq(gateQ', 1, Len(QueueLeft)) = QueueLeft
        /\ \A f \in DOMAIN fetch :
             (fetch[f].phase = "sleeping" /\ fetch'[f].phase = "queued") =>
               /\ gateQ' = Append(gateQ, f)
               /\ fetch'[f].attempt = fetch[f].attempt + 1
        /\ \A f \in DOMAIN fetch :
             (fetch[f].phase = "inflight" /\ fetch'[f].phase = "sleeping") =>
               /\ gate'.st = "gap"
               /\ gate'.timer = SHOPIFY_MIN_GAP_MS]_vars
  /\ [](\A f \in DOMAIN fetch :
          fetch[f].phase = "sleeping" =>
            /\ \A i \in 1 .. Len(gateQ) : gateQ[i] # f
            /\ gate.st = "busy" => \E g \in InFlight : g # f)
  /\ [](\A i, k \in 1 .. Len(gateQ) : i # k => gateQ[i] # gateQ[k])

C39_Witness ==
  /\ Len(gateQ) >= 2
  /\ fetch[gateQ[Len(gateQ)]].attempt = 2
  /\ fetch[gateQ[1]].attempt = 1
  /\ \E g \in InFlight : fetch[g].attempt = 1 /\ fetch[g].sends = 1

====
